---- MODULE Spec2Model ----
(***************************************************************************)
(* Model of the anonymous human-judging web UI (src/src/human_judge_web.py) *)
(* JudgeState (items, indices, the judgement document and its lock), the    *)
(* results file written by temp-file-then-rename, and the request handlers  *)
(* of JudgeRequestHandler running on concurrent threads.                    *)
(*                                                                          *)
(* Wall-clock values (created_at, updated_at, judged_at, ms, start_times)   *)
(* are not represented: no modelled decision reads them.                    *)
(***************************************************************************)
EXTENDS FiniteSets, Integers, Sequences, TLC

(***************************************************************************)
(* Bounds of the model.                                                     *)
(***************************************************************************)
NumThreads == 2
MaxRequests == 2
MaxCrashes == 1

Threads == 1..NumThreads

(***************************************************************************)
(* Program constants.                                                       *)
(***************************************************************************)
SCHEMA_VERSION == 2
CANDIDATE_RANGE == 1..10

None == "None"

(***************************************************************************)
(* The catalog handed to JudgeState: model names in alias order and the     *)
(* task descriptors of the tasks file.                                      *)
(***************************************************************************)
ModelNames == <<"alpha", "beta">>
Tasks ==
  << [task_id |-> "t1", task_type |-> <<"style">>],
     [task_id |-> "t2", task_type |-> <<>>] >>

\* Lexicographic order of the strings used as dictionary keys.
KeyOrder ==
  << "001.webp", "002.webp", "003.webp", "004.webp", "005.webp", "006.webp",
     "007.webp", "008.webp", "009.webp", "010.webp",
     "M01", "M02", "M03", "t1", "t2" >>

Rank(s) == CHOOSE i \in 1..Len(KeyOrder) : KeyOrder[i] = s

Max(a, b) == IF a > b THEN a ELSE b
Min(a, b) == IF a < b THEN a ELSE b

(***************************************************************************)
(* Text helpers: strings that are parsed are sequences of characters.       *)
(***************************************************************************)
IsSpace(c) == c \in {" ", "\t", "\n"}

RECURSIVE LStrip(_)
LStrip(s) ==
  IF s = <<>> THEN <<>>
  ELSE IF IsSpace(Head(s)) THEN LStrip(Tail(s)) ELSE s

RECURSIVE RStrip(_)
RStrip(s) ==
  IF s = <<>> THEN <<>>
  ELSE IF IsSpace(s[Len(s)]) THEN RStrip(SubSeq(s, 1, Len(s) - 1)) ELSE s

\* str.strip()
Strip(s) == RStrip(LStrip(s))

UpperChar(c) ==
  CASE c = "a" -> "A" [] c = "b" -> "B" [] c = "e" -> "E" [] c = "f" -> "F"
    [] c = "i" -> "I" [] c = "l" -> "L" [] c = "m" -> "M" [] c = "p" -> "P"
    [] c = "s" -> "S" [] c = "y" -> "Y" [] OTHER -> c

\* str.upper()
Upper(s) == [i \in 1..Len(s) |-> UpperChar(s[i])]

Digits == <<"0", "1", "2", "3", "4", "5", "6", "7", "8", "9">>
IsDigit(c) == \E d \in 1..10 : Digits[d] = c
DigitVal(c) == (CHOOSE d \in 1..10 : Digits[d] = c) - 1

RECURSIVE DigitsVal(_)
DigitsVal(s) ==
  IF s = <<>> THEN 0 ELSE 10 * DigitsVal(SubSeq(s, 1, Len(s) - 1)) + DigitVal(s[Len(s)])

\* int(text): [ok |-> FALSE] stands for ValueError.
ParseInt(raw) ==
  LET s == Strip(raw)
      neg == s # <<>> /\ Head(s) = "-"
      pos == s # <<>> /\ Head(s) = "+"
      body == IF neg \/ pos THEN Tail(s) ELSE s
  IN IF body # <<>> /\ \A i \in 1..Len(body) : IsDigit(body[i])
       THEN [ok |-> TRUE, val |-> IF neg THEN 0 - DigitsVal(body) ELSE DigitsVal(body)]
       ELSE [ok |-> FALSE, val |-> 0]

\* f"{n:03d}"
Pad3(n) ==
  IF n < 10 THEN "00" \o ToString(n)
  ELSE IF n < 100 THEN "0" \o ToString(n) ELSE ToString(n)

\* JudgeItem.candidate_filename
candidate_filename(item) == Pad3(item.candidate_num) \o ".webp"

\* _build_model_aliases: f"M{idx:0{width}d}" with width = max(2, digits of count)
Pad2(n) == IF n < 10 THEN "0" \o ToString(n) ELSE ToString(n)
model_aliases(i) == "M" \o Pad2(i)

(***************************************************************************)
(* JudgeState._build_items and the derived indices.                         *)
(***************************************************************************)
\* _normalize_task_types: the falsy entries of a list are dropped
_normalize_task_types(value) == SelectSeq(value, LAMBDA x : x # "")

RECURSIVE Flatten(_)
Flatten(ss) == IF ss = <<>> THEN <<>> ELSE Head(ss) \o Flatten(Tail(ss))

ItemsOf(m, task) ==
  [c \in CANDIDATE_RANGE |->
     [task_id |-> task.task_id,
      candidate_num |-> c,
      task_types |-> _normalize_task_types(task.task_type),
      model_name |-> ModelNames[m],
      model_id |-> model_aliases(m)]]

_build_items ==
  Flatten([m \in 1..Len(ModelNames) |->
             Flatten([t \in 1..Len(Tasks) |-> ItemsOf(m, Tasks[t])])])

(***************************************************************************)
(* The judgement document: nested dictionaries task -> alias -> filename -> *)
(* record, as Python dicts (functions with finite domains).                 *)
(***************************************************************************)
EmptyDict == [k \in {} |-> None]

\* dict.get(k, {})
Get(d, k) == IF k \in DOMAIN d THEN d[k] ELSE EmptyDict

\* d[k] = v
Put(d, k, v) == [x \in DOMAIN d \cup {k} |-> IF x = k THEN v ELSE d[x]]

\* The freshly initialized document of _load_or_init_results
FreshDoc == [schema_version |-> SCHEMA_VERSION, judgements |-> EmptyDict]

\* JudgeState.get_judgement
get_judgement(doc, item) ==
  LET rec == Get(Get(Get(doc.judgements, item.task_id), item.model_id),
                 candidate_filename(item))
  IN IF "verdict" \in DOMAIN rec THEN rec.verdict ELSE None

\* Mutant: the task's map is replaced instead of extended.
StoreRecordReplaceTask(doc, item, verdict) ==
  [doc EXCEPT !.judgements =
     Put(doc.judgements, item.task_id,
         (item.model_id :> (candidate_filename(item) :> [verdict |-> verdict])))]

\* Mutant: setdefault on the last level too; an existing record is kept.
StoreRecordKeepFirst(doc, item, verdict) ==
  LET task_map == Get(doc.judgements, item.task_id)
      model_map == Get(task_map, item.model_id)
      fname == candidate_filename(item)
      model_map2 == IF fname \in DOMAIN model_map THEN model_map
                    ELSE Put(model_map, fname, [verdict |-> verdict])
  IN [doc EXCEPT !.judgements =
        Put(doc.judgements, item.task_id, Put(task_map, item.model_id, model_map2))]

\* JudgeState.set_judgement, the in-memory part: the setdefault chain and
\* the assignment of the record.
StoreRecord(doc, item, verdict) ==
  LET task_map == Get(doc.judgements, item.task_id)
      model_map == Get(task_map, item.model_id)
      model_map2 == Put(model_map, candidate_filename(item), [verdict |-> verdict])
      task_map2 == Put(task_map, item.model_id, model_map2)
  IN [doc EXCEPT !.judgements = Put(doc.judgements, item.task_id, task_map2)]

(***************************************************************************)
(* The results file: json.dump(sort_keys=True) followed by a newline, as a  *)
(* sequence of tokens; json.load as the parser of such sequences.           *)
(***************************************************************************)
RECURSIVE SortKeys(_)
SortKeys(S) ==
  IF S = {} THEN <<>>
  ELSE LET m == CHOOSE s \in S : \A t \in S : Rank(s) <= Rank(t)
       IN <<m>> \o SortKeys(S \ {m})

EntryTokens(J) ==
  Flatten([ti \in 1..Cardinality(DOMAIN J) |->
    LET t == SortKeys(DOMAIN J)[ti] IN
    Flatten([mi \in 1..Cardinality(DOMAIN J[t]) |->
      LET m == SortKeys(DOMAIN J[t])[mi] IN
      [fi \in 1..Cardinality(DOMAIN J[t][m]) |->
        LET f == SortKeys(DOMAIN J[t][m])[fi] IN
        [tok |-> "judgement", task |-> t, model |-> m, file |-> f,
         verdict |-> J[t][m][f].verdict]]])])

\* json.dump(data, f, indent=2, sort_keys=True); f.write("\n")
Serialize(doc) ==
  << [tok |-> "{"], [tok |-> "schema_version", val |-> doc.schema_version] >>
  \o EntryTokens(doc.judgements)
  \o << [tok |-> "}"], [tok |-> "\n"] >>

RECURSIVE ParseEntries(_, _)
ParseEntries(ts, doc) ==
  IF ts = <<>> THEN doc
  ELSE LET e == Head(ts) IN
       ParseEntries(Tail(ts),
         IF e.tok = "schema_version" THEN [doc EXCEPT !.schema_version = e.val]
         ELSE LET tm == Get(doc.judgements, e.task)
                  mm == Put(Get(tm, e.model), e.file, [verdict |-> e.verdict])
              IN [doc EXCEPT !.judgements = Put(doc.judgements, e.task, Put(tm, e.model, mm))])

\* _load_json: kind "error" stands for json.JSONDecodeError; a dictionary
\* without a schema_version entry is read with version 0 (Python: None),
\* which differs from SCHEMA_VERSION in the same way.
_load_json(ts) ==
  LET n == IF ts # <<>> /\ ts[Len(ts)].tok = "\n" THEN Len(ts) - 1 ELSE Len(ts)
  IN IF n >= 2 /\ ts[1].tok = "[" /\ ts[n].tok = "]"
       THEN [kind |-> "list"]
     ELSE IF n >= 2 /\ ts[1].tok = "{" /\ ts[n].tok = "}"
             /\ \A i \in 2..(n - 1) : ts[i].tok \in {"schema_version", "judgement"}
       THEN [kind |-> "dict",
             doc |-> ParseEntries(SubSeq(ts, 2, n - 1),
                                  [schema_version |-> 0, judgements |-> EmptyDict])]
     ELSE [kind |-> "error"]

\* The index built in JudgeState.__init__ (lines 113-116): every (position,
\* tag) pair in the order the two nested loops visit them, then per tag the
\* positions (0-based) in the order they were appended.
TagPairs(its) ==
  Flatten([i \in 1..Len(its) |->
             [k \in 1..Len(its[i].task_types) |->
                [idx |-> i - 1, tag |-> its[i].task_types[k]]]])

BuildTypeIndex(its) ==
  LET pairs == TagPairs(its) IN
  [tag \in {pairs[j].tag : j \in 1..Len(pairs)} |->
     LET sel == SelectSeq(pairs, LAMBDA p : p.tag = tag)
     IN [j \in 1..Len(sel) |-> sel[j].idx]]

\* The index built in JudgeState.__init__ (lines 108-111): per (task_id,
\* model_id) key the positions (0-based) in the order enumerate visits them.
BuildTaskModelIndex(its) ==
  [key \in {<<its[i].task_id, its[i].model_id>> : i \in 1..Len(its)} |->
     SelectSeq([i \in 1..Len(its) |-> i - 1],
               LAMBDA p : <<its[p + 1].task_id, its[p + 1].model_id>> = key)]

RECURSIVE Join(_)
Join(s) == IF s = <<>> THEN "" ELSE Head(s) \o Join(Tail(s))

(***************************************************************************)
(* Request inputs: form and query fields as received (character            *)
(* sequences; parse_qs drops blank fields, so <<>> is an absent field).     *)
(***************************************************************************)
IdxInputs == { <<>>, <<"1">>, <<"-", "1">>, <<"9", "9">>, <<"x">> }
TypeInputs == { <<>>, <<" ", "s", "t", "y", "l", "e">>, <<"z">> }
VerdictInputs ==
  { <<"P", "A", "S", "S">>, <<" ", "f", "a", "i", "l">>, <<>>, <<"m", "a", "y", "b", "e">> }

\* The results files the process may find at startup.
StaleDoc ==
  [schema_version |-> 1,
   judgements |-> ("t1" :> ("M01" :> ("001.webp" :> [verdict |-> "PASS"])))]
OldDoc ==
  [schema_version |-> SCHEMA_VERSION,
   judgements |-> ("t1" :> ("M01" :> ("001.webp" :> [verdict |-> "FAIL"])))
                  @@ ("t2" :> ("M02" :> ("010.webp" :> [verdict |-> "PASS"])))]
NoFile == [exists |-> FALSE, data |-> <<>>]
FileOf(tokens) == [exists |-> TRUE, data |-> tokens]
FileInputs ==
  { NoFile,
    FileOf(Serialize(OldDoc)),
    FileOf(Serialize(StaleDoc)),
    FileOf(<< [tok |-> "["], [tok |-> "]"], [tok |-> "\n"] >>),
    FileOf(SubSeq(Serialize(OldDoc), 1, 3)) }

(***************************************************************************)
(* State.                                                                   *)
(***************************************************************************)
VARIABLES
  proc,                 \* "down" | "up" | "aborted" (startup raised)
  items,                \* JudgeState.items
  task_model_index_map, \* JudgeState.task_model_index_map
  task_type_index_map,  \* JudgeState.task_type_index_map
  results,              \* JudgeState.results, the in-memory document
  lock,                 \* JudgeState.lock: 0 when free, else the holding thread
  pc,                   \* per handler thread: where it is in its request
  req,                  \* per handler thread: the request and its locals
  resp,                 \* per handler thread: the response it sent last
  disk,                 \* the results directory: path -> file
  nreq,                 \* requests accepted so far
  ncrash,               \* crashes so far
  saved,                \* history: documents a save has started writing
  completed,            \* history: submissions whose set_judgement returned (this run)
  lastWrite,            \* history: item position -> verdict stored last (this run)
  call                  \* the frame of a function followed on its own, step by step

vars == << proc, items, task_model_index_map, task_type_index_map, results,
           lock, pc, req, resp, disk, nreq, ncrash, saved, completed, lastWrite,
           call >>

\* results_path, and the temporary path _atomic_write_json derives from it
results_path == "anonymous.json"
\* Mutant: the document is written straight to the destination path.
TmpPathSame(path) == path

TmpPath(path) == path \o ".tmp"

file == disk[results_path]
tmp == disk[TmpPath(results_path)]

NoReq == [kind |-> "none"]
NoResp == [status |-> 0]
NoCall == [fn |-> "none"]

Init ==
  /\ proc = "down"
  /\ items = <<>>
  /\ task_model_index_map = EmptyDict
  /\ task_type_index_map = EmptyDict
  /\ results = FreshDoc
  /\ call = NoCall
  /\ lock = 0
  /\ pc = [t \in Threads |-> "idle"]
  /\ req = [t \in Threads |-> NoReq]
  /\ resp = [t \in Threads |-> NoResp]
  /\ \E f \in FileInputs :
       disk = (results_path :> f) @@ (results_path \o ".tmp" :> NoFile)
  /\ nreq = 0
  /\ ncrash = 0
  /\ saved = {}
  /\ completed = {}
  /\ lastWrite = EmptyDict

(***************************************************************************)
(* Startup: JudgeState.__init__ ending in _load_or_init_results.            *)
(***************************************************************************)
\* Mutant: the schema version of a loaded dictionary is not compared.
_load_or_init_results_any_version(f) ==
  IF f.exists
    THEN LET data == _load_json(f.data) IN
         IF data.kind = "error" THEN [raised |-> TRUE, doc |-> FreshDoc]
         ELSE IF data.kind = "dict"
           THEN [raised |-> FALSE, doc |-> data.doc]
         ELSE [raised |-> FALSE, doc |-> FreshDoc]
    ELSE [raised |-> FALSE, doc |-> FreshDoc]

\* _load_or_init_results: [raised |-> TRUE] when _load_json raises
_load_or_init_results(f) ==
  IF f.exists
    THEN LET data == _load_json(f.data) IN
         IF data.kind = "error" THEN [raised |-> TRUE, doc |-> FreshDoc]
         ELSE IF data.kind = "dict" /\ data.doc.schema_version = SCHEMA_VERSION
           THEN [raised |-> FALSE, doc |-> data.doc]
         ELSE [raised |-> FALSE, doc |-> FreshDoc]
    ELSE [raised |-> FALSE, doc |-> FreshDoc]

Startup ==
  /\ proc = "down"
  /\ LET loaded == _load_or_init_results(file) IN
       /\ proc' = IF loaded.raised THEN "aborted" ELSE "up"
       /\ results' = loaded.doc
  /\ items' = _build_items
  /\ task_model_index_map' = BuildTaskModelIndex(_build_items)
  /\ task_type_index_map' = BuildTypeIndex(_build_items)
  /\ UNCHANGED << call, lock, pc, req, resp, disk, nreq, ncrash, saved,
                  completed, lastWrite >>

\* The process is killed (or the machine stops) at an arbitrary point: memory
\* is lost, the files stay as they are.
Crash ==
  /\ proc = "up"
  /\ ncrash < MaxCrashes
  /\ ncrash' = ncrash + 1
  /\ proc' = "down"
  /\ items' = <<>>
  /\ task_model_index_map' = EmptyDict
  /\ task_type_index_map' = EmptyDict
  /\ results' = FreshDoc
  /\ lock' = 0
  /\ pc' = [t \in Threads |-> "idle"]
  /\ req' = [t \in Threads |-> NoReq]
  /\ resp' = [t \in Threads |-> NoResp]
  /\ completed' = {}
  /\ lastWrite' = EmptyDict
  /\ UNCHANGED << call, disk, nreq, saved >>

(***************************************************************************)
(* Handler helpers.                                                         *)
(***************************************************************************)
\* JudgeState.total_items
total_items == Len(items)

\* Mutant: an unknown task type falls back to the full sequence.
_filtered_indices_or_all(task_type) ==
  IF task_type # "" /\ task_type \in DOMAIN task_type_index_map
    THEN task_type_index_map[task_type]
  ELSE [i \in 1..total_items |-> i - 1]

\* JudgeRequestHandler._filtered_indices
_filtered_indices(task_type) ==
  IF task_type = "" THEN [i \in 1..total_items |-> i - 1]
  ELSE IF task_type \in DOMAIN task_type_index_map
    THEN task_type_index_map[task_type]
  ELSE <<>>

\* state.items[filtered_indices[idx]]
ItemAt(filtered, idx) == items[filtered[idx + 1] + 1]

\* Mutant: a position outside the sequence becomes position 0.
ClampToZero(idx, total) == IF 0 <= idx /\ idx < total THEN idx ELSE 0

\* Mutant: an out-of-range position wraps around instead of being clamped.
ClampWrap(idx, total) == idx % total

\* idx = max(0, min(idx, total - 1))
Clamp(idx, total) == Max(0, Min(idx, total - 1))

\* try: int(params.get("idx", ["0"])[0]) except ValueError: 0
ParseIdx(raw) ==
  LET r == ParseInt(IF raw = <<>> THEN <<"0">> ELSE raw)
  IN IF r.ok THEN r.val ELSE 0

\* params.get("task_type", [""])[0].strip()
ParseTaskType(raw) == Join(Strip(raw))

\* params.get("verdict", [""])[0].strip().upper()
ParseVerdict(raw) == Join(Upper(Strip(raw)))

\* JudgeRequestHandler._next_unjudged_filtered_index, run without interruption
RECURSIVE ScanFrom(_, _, _, _)
ScanFrom(filtered, start_idx, offset, doc) ==
  LET total == Len(filtered) IN
  IF offset > total THEN start_idx
  ELSE LET idx == (start_idx + offset) % total IN
       IF get_judgement(doc, ItemAt(filtered, idx)) = None THEN idx
       ELSE ScanFrom(filtered, start_idx, offset + 1, doc)

\* Mutant: the position after the start, judged or not.
_next_filtered_index(filtered, start_idx, doc) ==
  IF Len(filtered) = 0 THEN 0 ELSE (start_idx + 1) % Len(filtered)

_next_unjudged_filtered_index(filtered, start_idx, doc) ==
  IF Len(filtered) = 0 THEN 0 ELSE ScanFrom(filtered, start_idx, 1, doc)

\* Mutant: stepping back stops at position 0 instead of wrapping.
PrevPosNoWrap(idx, total) == IF idx > 0 THEN idx - 1 ELSE 0

\* prev_idx / next_idx of _render_main
PrevPos(idx, total) == IF total # 0 THEN (idx - 1) % total ELSE 0
NextPos(idx, total) == IF total # 0 THEN (idx + 1) % total ELSE 0

\* JudgeState.next_index / prev_index
next_index(idx) == IF total_items # 0 THEN (idx + 1) % total_items ELSE 0
prev_index(idx) == IF total_items # 0 THEN (idx - 1) % total_items ELSE 0

\* _redirect(_build_index_url(idx=..., task_type=...))
Redirect(idx, task_type) ==
  [status |-> 303, idx |-> idx, task_type |-> task_type]

Accepting(t) ==
  /\ proc = "up"
  /\ pc[t] \in {"idle", "done"}
  /\ nreq < MaxRequests

(***************************************************************************)
(* POST /judge (do_POST), one request per handler thread.                   *)
(***************************************************************************)
Finish(t, response) ==
  /\ pc' = [pc EXCEPT ![t] = "done"]
  /\ req' = [req EXCEPT ![t] = NoReq]
  /\ resp' = [resp EXCEPT ![t] = response]

\* Mutant: any non-empty verdict is accepted.
IsValidVerdictNonEmpty(verdict) == verdict # ""

\* if verdict not in {"PASS", "FAIL"}: 400
IsValidVerdict(verdict) == verdict \in {"PASS", "FAIL"}

\* Lines 281-308: parse the form, validate the verdict, select the item.
PostWith(t, raw_idx, raw_type, raw_verdict) ==
  /\ Accepting(t)
  /\ nreq' = nreq + 1
  /\ LET idx0 == ParseIdx(raw_idx)
         task_type == ParseTaskType(raw_type)
         verdict == ParseVerdict(raw_verdict)
         filtered_indices == _filtered_indices(task_type)
         total == Len(filtered_indices)
     IN IF ~IsValidVerdict(verdict)
          THEN Finish(t, [status |-> 400])
        ELSE IF total = 0
          THEN Finish(t, Redirect(0, task_type))
        ELSE /\ pc' = [pc EXCEPT ![t] = "lock"]
             /\ req' = [req EXCEPT ![t] =
                  [kind |-> "POST", task_type |-> task_type, verdict |-> verdict,
                   idx |-> Clamp(idx0, total),
                   item_idx |-> filtered_indices[Clamp(idx0, total) + 1],
                   offset |-> 1]]
             /\ resp' = [resp EXCEPT ![t] = NoResp]
  /\ UNCHANGED << call, proc, items, task_model_index_map, task_type_index_map, results, lock, disk,
                  ncrash, saved, completed, lastWrite >>

DoPost(t) ==
  \E raw_idx \in IdxInputs, raw_type \in TypeInputs, raw_verdict \in VerdictInputs :
    PostWith(t, raw_idx, raw_type, raw_verdict)

\* Mutant: the critical section is entered without waiting for the lock.
AcquireNoLock(t) ==
  /\ proc = "up"
  /\ pc[t] = "lock"
  /\ lock' = t
  /\ pc' = [pc EXCEPT ![t] = "store"]
  /\ UNCHANGED << call, proc, items, task_model_index_map, task_type_index_map, results, req, resp, disk,
                  nreq, ncrash, saved, completed, lastWrite >>

\* set_judgement: with self.lock
Acquire(t) ==
  /\ proc = "up"
  /\ pc[t] = "lock"
  /\ lock = 0
  /\ lock' = t
  /\ pc' = [pc EXCEPT ![t] = "store"]
  /\ UNCHANGED << call, proc, items, task_model_index_map, task_type_index_map, results, req, resp, disk,
                  nreq, ncrash, saved, completed, lastWrite >>

\* set_judgement: the record is put into the in-memory document
Store(t) ==
  /\ proc = "up"
  /\ pc[t] = "store"
  /\ results' = StoreRecord(results, items[req[t].item_idx + 1], req[t].verdict)
  /\ lastWrite' = Put(lastWrite, req[t].item_idx, req[t].verdict)
  /\ pc' = [pc EXCEPT ![t] = "save_open"]
  /\ UNCHANGED << call, proc, items, task_model_index_map, task_type_index_map, lock, req, resp, disk,
                  nreq, ncrash, saved, completed >>

\* _atomic_write_json: open(tmp, "w") creates or truncates the temporary file
OpenTmp(t) ==
  /\ proc = "up"
  /\ pc[t] = "save_open"
  /\ disk' = [disk EXCEPT ![TmpPath(results_path)] = FileOf(<<>>)]
  /\ saved' = saved \cup {results}
  /\ pc' = [pc EXCEPT ![t] = "save_write"]
  /\ UNCHANGED << call, proc, items, task_model_index_map, task_type_index_map, results, lock, req, resp,
                  nreq, ncrash, completed, lastWrite >>

\* _atomic_write_json: json.dump and the newline reach the temporary file
\* piece by piece; the file is closed when the last piece is out.
WriteTmp(t) ==
  /\ proc = "up"
  /\ pc[t] = "save_write"
  /\ LET out == Serialize(results)
         written == disk[TmpPath(results_path)].data
     IN IF Len(written) < Len(out)
          THEN /\ disk' = [disk EXCEPT ![TmpPath(results_path)] =
                             FileOf(Append(written, out[Len(written) + 1]))]
               /\ pc' = pc
          ELSE /\ disk' = disk
               /\ pc' = [pc EXCEPT ![t] = "save_replace"]
  /\ UNCHANGED << call, proc, items, task_model_index_map, task_type_index_map, results, lock, req, resp,
                  nreq, ncrash, saved, completed, lastWrite >>

\* Mutant: the arguments of os.replace swapped.
os_replace_swapped(d, src, dst) ==
  IF src = dst THEN d ELSE [d EXCEPT ![src] = d[dst], ![dst] = NoFile]

\* os.replace(src, dst): dst takes the content of src in one step and src is
\* gone; replacing a file by itself changes nothing.
os_replace(d, src, dst) ==
  IF src = dst THEN d ELSE [d EXCEPT ![dst] = d[src], ![src] = NoFile]

\* _atomic_write_json: os.replace(tmp, path)
Replace(t) ==
  /\ proc = "up"
  /\ pc[t] = "save_replace"
  /\ disk' = os_replace(disk, TmpPath(results_path), results_path)
  /\ pc' = [pc EXCEPT ![t] = "unlock"]
  /\ UNCHANGED << call, proc, items, task_model_index_map, task_type_index_map, results, lock, req, resp,
                  nreq, ncrash, saved, completed, lastWrite >>

\* set_judgement: the with block ends
Release(t) ==
  /\ proc = "up"
  /\ pc[t] = "unlock"
  /\ lock' = 0
  /\ completed' = completed \cup {[item_idx |-> req[t].item_idx, verdict |-> req[t].verdict]}
  /\ pc' = [pc EXCEPT ![t] = "scan"]
  /\ UNCHANGED << call, proc, items, task_model_index_map, task_type_index_map, results, req, resp, disk,
                  nreq, ncrash, saved, lastWrite >>

\* do_POST line 311: one iteration of the loop of _next_unjudged_filtered_index,
\* then the redirect of line 312 when the loop returns.
Scan(t) ==
  /\ proc = "up"
  /\ pc[t] = "scan"
  /\ LET filtered_indices == _filtered_indices(req[t].task_type)
         total == Len(filtered_indices)
         idx == (req[t].idx + req[t].offset) % total
     IN IF req[t].offset > total
          THEN Finish(t, Redirect(req[t].idx, req[t].task_type))
        ELSE IF get_judgement(results, ItemAt(filtered_indices, idx)) = None
          THEN Finish(t, Redirect(idx, req[t].task_type))
        ELSE /\ req' = [req EXCEPT ![t].offset = @ + 1]
             /\ UNCHANGED << pc, resp >>
  /\ UNCHANGED << call, proc, items, task_model_index_map, task_type_index_map, results, lock, disk,
                  nreq, ncrash, saved, completed, lastWrite >>

(***************************************************************************)
(* GET / (_render_main).                                                    *)
(***************************************************************************)
\* done = sum(1 for global_idx in filtered_indices if get_judgement(...))
DoneCount(filtered, doc) ==
  Cardinality({i \in 1..Len(filtered) :
                 get_judgement(doc, items[filtered[i] + 1]) \notin {None, ""}})

GetWith(t, raw_idx, raw_type) ==
  /\ Accepting(t)
  /\ nreq' = nreq + 1
  /\ LET task_type == ParseTaskType(raw_type)
         filtered_indices == _filtered_indices(task_type)
         total == Len(filtered_indices)
         idx == Clamp(ParseIdx(raw_idx), total)
     IN IF total = 0
          THEN Finish(t, [status |-> 200, page |-> "No tasks available",
                          task_type |-> task_type, clear_link |-> Redirect(0, "")])
        ELSE Finish(t, [status |-> 200, page |-> "item", task_type |-> task_type,
                        idx |-> idx, item_idx |-> filtered_indices[idx + 1],
                        judgement |-> get_judgement(results, ItemAt(filtered_indices, idx)),
                        prev_idx |-> PrevPos(idx, total),
                        next_idx |-> NextPos(idx, total),
                        next_unjudged |->
                          _next_unjudged_filtered_index(filtered_indices, idx, results),
                        done |-> DoneCount(filtered_indices, results),
                        total |-> total])
  /\ UNCHANGED << call, proc, items, task_model_index_map, task_type_index_map, results, lock, disk,
                  ncrash, saved, completed, lastWrite >>

DoGet(t) ==
  \E raw_idx \in IdxInputs, raw_type \in TypeInputs : GetWith(t, raw_idx, raw_type)

Next ==
  \/ Startup
  \/ Crash
  \/ \E t \in Threads :
       \/ DoPost(t)
       \/ Acquire(t)
       \/ Store(t)
       \/ OpenTmp(t)
       \/ WriteTmp(t)
       \/ Replace(t)
       \/ Release(t)
       \/ Scan(t)
       \/ DoGet(t)

Spec == Init /\ [][Next]_vars

\* A results directory that holds no results file yet.
InitFresh == Init /\ ~file.exists
SpecFresh == InitFresh /\ [][Next]_vars

(***************************************************************************)
(* Next-unjudged navigation followed on its own: the process is up on a     *)
(* results file of earlier sessions, and the loop of                        *)
(* _next_unjudged_filtered_index runs one iteration per step.               *)
(***************************************************************************)
\* The document after PASS verdicts for the items at the positions in S.
RECURSIVE DocJudging(_, _)
DocJudging(its, S) ==
  IF S = {} THEN FreshDoc
  ELSE LET p == CHOOSE q \in S : TRUE
       IN StoreRecord(DocJudging(its, S \ {p}), its[p + 1], "PASS")

\* The sets of judged positions the earlier sessions may have left.
NavJudged ==
  LET n == Len(_build_items) IN
  {0..(k - 1) : k \in {0, 1, 2, n \div 2, n}}
    \cup {(0..(n - 1)) \ {p} : p \in {0, 7, (n \div 2) - 1, n \div 2, n - 1}}
    \cup { {p \in 0..(n - 1) : p % 2 = 0},
           {0, n - 1},
           {p \in 0..(n - 1) : "style" \in
              {_build_items[p + 1].task_types[k] :
                 k \in 1..Len(_build_items[p + 1].task_types)}} }

NavTypes == {"", "style", "z"}

InitNav ==
  /\ proc = "up"
  /\ items = _build_items
  /\ task_model_index_map = BuildTaskModelIndex(_build_items)
  /\ task_type_index_map = BuildTypeIndex(_build_items)
  /\ \E S \in NavJudged :
       /\ results = DocJudging(_build_items, S)
       /\ disk = (results_path :> FileOf(Serialize(DocJudging(_build_items, S))))
                   @@ (results_path \o ".tmp" :> NoFile)
  /\ call = NoCall
  /\ lock = 0
  /\ pc = [t \in Threads |-> "idle"]
  /\ req = [t \in Threads |-> NoReq]
  /\ resp = [t \in Threads |-> NoResp]
  /\ nreq = 0
  /\ ncrash = 0
  /\ saved = {}
  /\ completed = {}
  /\ lastWrite = EmptyDict

NavUnchanged ==
  UNCHANGED << proc, items, task_model_index_map, task_type_index_map, results,
               lock, pc, req, resp, disk, nreq, ncrash, saved, completed,
               lastWrite >>

\* _next_unjudged_filtered_index is entered (lines 328-330)
NavCall ==
  /\ proc = "up"
  /\ call = NoCall
  /\ \E task_type \in NavTypes :
       LET filtered == _filtered_indices(task_type)
           total == Len(filtered)
       IN \E start_idx \in 0..Max(0, total - 1) :
            call' = [fn |-> "_next_unjudged_filtered_index",
                     task_type |-> task_type, filtered |-> filtered,
                     start_idx |-> start_idx, offset |-> 1, examined |-> 0,
                     returned |-> total = 0, result |-> 0]
  /\ NavUnchanged

\* Mutant: the scan runs to the end of the sequence and does not wrap.
NavStepNoWrap ==
  /\ call.fn = "_next_unjudged_filtered_index"
  /\ ~call.returned
  /\ LET total == Len(call.filtered)
         idx == call.start_idx + call.offset
     IN IF idx > total - 1
          THEN call' = [call EXCEPT !.returned = TRUE, !.result = call.start_idx]
        ELSE IF get_judgement(results, ItemAt(call.filtered, idx)) = None
          THEN call' = [call EXCEPT !.returned = TRUE, !.result = idx,
                                    !.examined = @ + 1]
        ELSE call' = [call EXCEPT !.offset = @ + 1, !.examined = @ + 1]
  /\ NavUnchanged

\* One iteration of "for offset in range(1, total + 1)" (lines 331-336)
NavStep ==
  /\ call.fn = "_next_unjudged_filtered_index"
  /\ ~call.returned
  /\ LET total == Len(call.filtered)
         idx == (call.start_idx + call.offset) % total
     IN IF call.offset > total
          THEN call' = [call EXCEPT !.returned = TRUE, !.result = call.start_idx]
        ELSE IF get_judgement(results, ItemAt(call.filtered, idx)) = None
          THEN call' = [call EXCEPT !.returned = TRUE, !.result = idx,
                                    !.examined = @ + 1]
        ELSE call' = [call EXCEPT !.offset = @ + 1, !.examined = @ + 1]
  /\ NavUnchanged

\* The caller takes the result.
NavReturn ==
  /\ call.fn = "_next_unjudged_filtered_index"
  /\ call.returned
  /\ call' = NoCall
  /\ NavUnchanged

\* JudgeState.next_unjudged_index: the same scan over the full sequence
next_unjudged_index(start_idx, doc) ==
  IF total_items = 0 THEN 0
  ELSE ScanFrom([i \in 1..total_items |-> i - 1], start_idx, 1, doc)

NextNav == NavCall \/ NavStep \/ NavReturn

SpecNav == InitNav /\ [][NextNav]_vars

(***************************************************************************)
(* JudgeState.__init__ followed on its own, statement by statement, for a   *)
(* catalog and a shuffle flag given by the command line.                    *)
(***************************************************************************)
MaxSwaps == 1

\* _build_model_aliases: aliases[name] = alias, a later entry of the same
\* name replacing an earlier one
AliasOf(model_names, name) ==
  model_aliases(CHOOSE i \in 1..Len(model_names) :
                  /\ model_names[i] = name
                  /\ \A j \in (i + 1)..Len(model_names) : model_names[j] # name)

\* Mutant: the candidate loop stops one slot short.
ItemsForNineSlots(model_names, m, task) ==
  [c \in 1..9 |->
     [task_id |-> task.task_id,
      candidate_num |-> c,
      task_types |-> _normalize_task_types(task.task_type),
      model_name |-> model_names[m],
      model_id |-> AliasOf(model_names, model_names[m])]]

\* _build_items, the loop over CANDIDATE_RANGE for one model and one task
ItemsFor(model_names, m, task) ==
  [c \in CANDIDATE_RANGE |->
     [task_id |-> task.task_id,
      candidate_num |-> c,
      task_types |-> _normalize_task_types(task.task_type),
      model_name |-> model_names[m],
      model_id |-> AliasOf(model_names, model_names[m])]]

\* _build_items for the given model names and tasks
BuildItemsFor(model_names, tasks) ==
  Flatten([m \in 1..Len(model_names) |->
             Flatten([t \in 1..Len(tasks) |-> ItemsFor(model_names, m, tasks[t])])])

\* The catalogs: model lists (main refuses an empty one) and task lists,
\* among them a repeated model name, a repeated task id, a repeated tag and
\* an empty tag.
BuildModels == { <<"alpha">>, <<"beta", "alpha">>, <<"alpha", "alpha">> }
BuildTasks ==
  { <<>>,
    << [task_id |-> "t1", task_type |-> <<"style">>] >>,
    << [task_id |-> "t1", task_type |-> <<"style">>],
       [task_id |-> "t2", task_type |-> <<>>] >>,
    << [task_id |-> "t3", task_type |-> <<"text", "", "style", "text">>] >>,
    << [task_id |-> "t1", task_type |-> <<"style">>],
       [task_id |-> "t1", task_type |-> <<"text">>] >> }

InitBuild ==
  /\ proc = "down"
  /\ items = <<>>
  /\ task_model_index_map = EmptyDict
  /\ task_type_index_map = EmptyDict
  /\ results = FreshDoc
  /\ \E model_names \in BuildModels, tasks \in BuildTasks, shuffle \in BOOLEAN :
       /\ Len(model_names) * Len(tasks) <= 2
       /\ call = [fn |-> "JudgeState.__init__", stage |-> "items",
                  model_names |-> model_names, tasks |-> tasks,
                  shuffle |-> shuffle, i |-> 0, nswap |-> 0]
  /\ lock = 0
  /\ pc = [t \in Threads |-> "idle"]
  /\ req = [t \in Threads |-> NoReq]
  /\ resp = [t \in Threads |-> NoResp]
  /\ disk = (results_path :> NoFile) @@ (results_path \o ".tmp" :> NoFile)
  /\ nreq = 0
  /\ ncrash = 0
  /\ saved = {}
  /\ completed = {}
  /\ lastWrite = EmptyDict

InCtor(stage) == call.fn = "JudgeState.__init__" /\ call.stage = stage

\* self.items = self._build_items(tasks) (line 104)
CtorBuildItems ==
  /\ InCtor("items")
  /\ items' = BuildItemsFor(call.model_names, call.tasks)
  /\ call' = [call EXCEPT !.stage = IF call.shuffle THEN "shuffle" ELSE "index",
                          !.i = Len(items') - 1]
  /\ UNCHANGED << proc, task_model_index_map, task_type_index_map, results, lock,
                  pc, req, resp, disk, nreq, ncrash, saved, completed, lastWrite >>

\* Mutant: the exchange writes x[i] and forgets x[j].
SwapOverwrite(x, i, j) == [x EXCEPT ![i + 1] = x[j + 1]]

\* x[i], x[j] = x[j], x[i]
Swap(x, i, j) == [x EXCEPT ![i + 1] = x[j + 1], ![j + 1] = x[i + 1]]

\* random.shuffle(self.items) (line 106): for i from len - 1 down to 1, a
\* position j in 0..i is drawn and the items at i and j are exchanged.  At
\* most MaxSwaps of the draws differ from i.
CtorShuffleStep ==
  /\ InCtor("shuffle")
  /\ IF call.i < 1
       THEN /\ call' = [call EXCEPT !.stage = "index"]
            /\ items' = items
       ELSE \E j \in 0..call.i :
              /\ j = call.i \/ call.nswap < MaxSwaps
              /\ items' = Swap(items, call.i, j)
              /\ call' = [call EXCEPT !.i = @ - 1,
                                      !.nswap = IF j = call.i THEN @ ELSE @ + 1]
  /\ UNCHANGED << proc, task_model_index_map, task_type_index_map, results, lock,
                  pc, req, resp, disk, nreq, ncrash, saved, completed, lastWrite >>

\* The two index loops (lines 108-118)
CtorIndex ==
  /\ InCtor("index")
  /\ task_model_index_map' = BuildTaskModelIndex(items)
  /\ task_type_index_map' = BuildTypeIndex(items)
  /\ call' = [call EXCEPT !.stage = "load"]
  /\ UNCHANGED << proc, items, results, lock, pc, req, resp, disk, nreq, ncrash,
                  saved, completed, lastWrite >>

\* self.results = self._load_or_init_results() (line 120); the object exists
CtorLoad ==
  /\ InCtor("load")
  /\ results' = _load_or_init_results(file).doc
  /\ proc' = "up"
  /\ call' = [call EXCEPT !.stage = "done"]
  /\ UNCHANGED << items, task_model_index_map, task_type_index_map, lock, pc,
                  req, resp, disk, nreq, ncrash, saved, completed, lastWrite >>

NextBuild == CtorBuildItems \/ CtorShuffleStep \/ CtorIndex \/ CtorLoad

SpecBuild == InitBuild /\ [][NextBuild]_vars

(***************************************************************************)
(* The automated judge (src/src/judge_gemini_3_flash.py): _parse_verdict    *)
(* on the reply text, strategy by strategy.  A text is a sequence of        *)
(* lexical tokens (white space between tokens is not represented): the      *)
(* punctuation of JSON, string literals with their content as characters,   *)
(* a number, null, and a bare word of prose.                                *)
(***************************************************************************)
MaxReplyLen == 3

Punct(c) == [k |-> "punct", v |-> <<c>>]
StrTok(chars) == [k |-> "str", v |-> chars]
NumTok == [k |-> "num", v |-> <<"1">>]
NullTok == [k |-> "null", v |-> <<"n", "u", "l", "l">>]
WordTok == [k |-> "word", v |-> <<"S", "u", "r", "e">>]

KeyVerdict == <<"v", "e", "r", "d", "i", "c", "t">>
KeyReasoning == <<"r", "e", "a", "s", "o", "n", "i", "n", "g">>

\* Python values: t is the type, s the text of a scalar, d the entries of a dict.
PyScalar(tok) == [t |-> tok.k, s |-> tok.v, d |-> <<>>]
PyList == [t |-> "list", s |-> <<"[", "]">>, d |-> <<>>]
PyDict(d) == [t |-> "dict", s |-> <<"{", "}">>, d |-> d]
PyNone == [t |-> "null", s |-> <<>>, d |-> <<>>]

ParseFail == [ok |-> FALSE, val |-> PyNone, rest |-> <<>>]

\* The JSON grammar by recursive descent: each operator returns whether a
\* prefix of the tokens parsed, the value, and the tokens left over.
RECURSIVE ParseValue(_)
RECURSIVE ParseElements(_)
RECURSIVE ParseMembers(_, _)

ParseValue(ts) ==
  IF ts = <<>> THEN ParseFail
  ELSE LET h == Head(ts) IN
       IF h.k \in {"str", "num", "null"}
         THEN [ok |-> TRUE, val |-> PyScalar(h), rest |-> Tail(ts)]
       ELSE IF h = Punct("[")
         THEN IF Len(ts) >= 2 /\ ts[2] = Punct("]")
                THEN [ok |-> TRUE, val |-> PyList, rest |-> SubSeq(ts, 3, Len(ts))]
              ELSE ParseElements(Tail(ts))
       ELSE IF h = Punct("{")
         THEN IF Len(ts) >= 2 /\ ts[2] = Punct("}")
                THEN [ok |-> TRUE, val |-> PyDict(<<>>), rest |-> SubSeq(ts, 3, Len(ts))]
              ELSE ParseMembers(Tail(ts), <<>>)
       ELSE ParseFail

\* value ("," value)* "]"
ParseElements(ts) ==
  LET r == ParseValue(ts) IN
  IF ~r.ok \/ r.rest = <<>> THEN ParseFail
  ELSE IF Head(r.rest) = Punct("]")
    THEN [ok |-> TRUE, val |-> PyList, rest |-> Tail(r.rest)]
  ELSE IF Head(r.rest) = Punct(",") THEN ParseElements(Tail(r.rest))
  ELSE ParseFail

\* string ":" value ("," string ":" value)* "}"; a repeated key keeps the
\* last value
ParseMembers(ts, d) ==
  IF Len(ts) < 2 \/ ts[1].k # "str" \/ ts[2] # Punct(":") THEN ParseFail
  ELSE LET r == ParseValue(SubSeq(ts, 3, Len(ts)))
           d2 == Put(d, ts[1].v, r.val)
       IN IF ~r.ok \/ r.rest = <<>> THEN ParseFail
          ELSE IF Head(r.rest) = Punct("}")
            THEN [ok |-> TRUE, val |-> PyDict(d2), rest |-> Tail(r.rest)]
          ELSE IF Head(r.rest) = Punct(",") THEN ParseMembers(Tail(r.rest), d2)
          ELSE ParseFail

\* json.loads(text): [ok |-> FALSE] stands for json.JSONDecodeError
json_loads(ts) ==
  LET r == ParseValue(ts) IN
  IF r.ok /\ r.rest = <<>> THEN [ok |-> TRUE, val |-> r.val]
  ELSE [ok |-> FALSE, val |-> PyNone]

Lowers == <<"a", "b", "c", "d", "e", "f", "g", "h", "i", "j", "k", "l", "m",
            "n", "o", "p", "q", "r", "s", "t", "u", "v", "w", "x", "y", "z">>
Uppers == <<"A", "B", "C", "D", "E", "F", "G", "H", "I", "J", "K", "L", "M",
            "N", "O", "P", "Q", "R", "S", "T", "U", "V", "W", "X", "Y", "Z">>

\* str.upper() on the letters a-z
UpperText(chars) ==
  [i \in 1..Len(chars) |->
     IF \E n \in 1..26 : Lowers[n] = chars[i]
       THEN Uppers[CHOOSE n \in 1..26 : Lowers[n] = chars[i]]
     ELSE chars[i]]

\* data.get(key, "")
DictGet(val, key) == IF key \in DOMAIN val.d THEN val.d[key] ELSE PyScalar(StrTok(<<>>))

\* str(value)
PyStr(val) == IF val.t = "null" THEN <<"N", "o", "n", "e">> ELSE val.s

\* str(data.get("verdict", "")).strip().upper()
VerdictOf(val) == UpperText(Strip(PyStr(DictGet(val, KeyVerdict))))

\* str(data.get("reasoning", "")).strip()
ReasoningOf(val) == Strip(PyStr(DictGet(val, KeyReasoning)))

\* if verdict in {"PASS", "FAIL"} and reasoning
Accepted(val) ==
  /\ VerdictOf(val) \in {<<"P", "A", "S", "S">>, <<"F", "A", "I", "L">>}
  /\ ReasoningOf(val) # <<>>

\* The server does not exist in the runs that follow a function of the
\* automated judge or of the start-up on its own.
NoServer ==
  /\ proc = "down"
  /\ items = <<>>
  /\ task_model_index_map = EmptyDict
  /\ task_type_index_map = EmptyDict
  /\ results = FreshDoc
  /\ lock = 0
  /\ pc = [t \in Threads |-> "idle"]
  /\ req = [t \in Threads |-> NoReq]
  /\ resp = [t \in Threads |-> NoResp]
  /\ disk = (results_path :> NoFile) @@ (results_path \o ".tmp" :> NoFile)
  /\ nreq = 0
  /\ ncrash = 0
  /\ saved = {}
  /\ completed = {}
  /\ lastWrite = EmptyDict

OnlyCall ==
  UNCHANGED << proc, items, task_model_index_map, task_type_index_map, results,
               lock, pc, req, resp, disk, nreq, ncrash, saved, completed,
               lastWrite >>

\* {"verdict": v, "reasoning": r}
ReplyObject(v, r) ==
  << Punct("{"), StrTok(KeyVerdict), Punct(":"), v, Punct(","),
     StrTok(KeyReasoning), Punct(":"), r, Punct("}") >>

ReplyAlphabet ==
  { Punct("{"), Punct("}"), Punct("["), Punct("]"), Punct(":"), Punct(","),
    StrTok(KeyVerdict), StrTok(<<"P", "A", "S", "S">>), NumTok, NullTok, WordTok }

\* The reply texts: every text of up to MaxReplyLen tokens, and longer ones
\* around the object the prompt asks for.
ReplyTexts ==
  UNION {[1..n -> ReplyAlphabet] : n \in 1..MaxReplyLen}
  \cup { ReplyObject(v, r) :
           v \in {StrTok(<<"P", "A", "S", "S">>), StrTok(<<" ", "f", "a", "i", "l">>),
                  StrTok(<<"m", "a", "y", "b", "e">>), NumTok, NullTok},
           r \in {StrTok(<<"o", "k">>), StrTok(<<" ">>), NullTok} }
  \cup { <<WordTok>> \o ReplyObject(StrTok(<<"P", "A", "S", "S">>), StrTok(<<"o", "k">>))
            \o <<WordTok>>,
         <<WordTok>> \o ReplyObject(StrTok(<<"f", "a", "i", "l">>), StrTok(<<"o", "k">>)),
         ReplyObject(StrTok(<<"P", "A", "S", "S">>), StrTok(<<"o", "k">>))
            \o <<WordTok, Punct("{"), Punct("}")>>,
         SubSeq(ReplyObject(StrTok(<<"P", "a", "s", "s">>), StrTok(<<"o", "k">>)), 1, 8),
         << Punct("{"), StrTok(KeyReasoning), Punct(":"), StrTok(<<"o", "k">>), Punct("}") >>,
         << Punct("["), Punct("{"), Punct("}"), Punct("]") >>,
         << Punct("["), StrTok(<<"P", "A", "S", "S">>), Punct(","), StrTok(<<"o", "k">>),
            Punct("]") >> }

\* judge: verdict, reasoning = self._parse_verdict(final_text)
InitJudge ==
  /\ NoServer
  /\ \E text \in ReplyTexts :
       call = [fn |-> "_parse_verdict", text |-> text, stage |-> "whole",
               verdict |-> "", reasoning |-> <<>>, unparseable |-> FALSE]

Returns(verdict, reasoning) ==
  call' = [call EXCEPT !.stage = "returned", !.verdict = Join(verdict),
                       !.reasoning = reasoning]

\* Lines 208-215: the whole text as JSON.  data.get on a value that is not
\* a dict raises AttributeError, which the except clause does not catch.
ParseWhole ==
  /\ call.fn = "_parse_verdict"
  /\ call.stage = "whole"
  /\ LET data == json_loads(call.text) IN
       IF ~data.ok THEN call' = [call EXCEPT !.stage = "embedded"]
       ELSE IF data.val.t # "dict" THEN call' = [call EXCEPT !.stage = "raised"]
       ELSE IF Accepted(data.val)
         THEN Returns(VerdictOf(data.val), ReasoningOf(data.val))
       ELSE call' = [call EXCEPT !.stage = "embedded"]
  /\ OnlyCall

\* re.search(r"\{.*\}", text, re.DOTALL): from the first "{" to the last "}"
BraceSpan(ts) ==
  LET opens == {i \in 1..Len(ts) : ts[i] = Punct("{")}
      first == CHOOSE i \in opens : \A j \in opens : i <= j
      closes == {i \in 1..Len(ts) : ts[i] = Punct("}") /\ i > first}
  IN IF opens = {} \/ closes = {} THEN [found |-> FALSE, text |-> <<>>]
     ELSE [found |-> TRUE,
           text |-> SubSeq(ts, first, CHOOSE i \in closes : \A j \in closes : i >= j)]

\* Lines 217-226: the brace-delimited part of the text as JSON
ParseEmbedded ==
  /\ call.fn = "_parse_verdict"
  /\ call.stage = "embedded"
  /\ LET match == BraceSpan(call.text)
         data == json_loads(match.text)
     IN IF ~match.found \/ ~data.ok THEN call' = [call EXCEPT !.stage = "pattern"]
        ELSE IF data.val.t # "dict" THEN call' = [call EXCEPT !.stage = "raised"]
        ELSE IF Accepted(data.val)
          THEN Returns(VerdictOf(data.val), ReasoningOf(data.val))
        ELSE call' = [call EXCEPT !.stage = "pattern"]
  /\ OnlyCall

\* re.search(r'"verdict"\s*:\s*"(PASS|FAIL)"', text, re.IGNORECASE)
VerdictMatches(ts) ==
  {i \in 1..(Len(ts) - 2) :
     /\ ts[i].k = "str" /\ UpperText(ts[i].v) = UpperText(KeyVerdict)
     /\ ts[i + 1] = Punct(":")
     /\ ts[i + 2].k = "str"
     /\ UpperText(ts[i + 2].v) \in {<<"P", "A", "S", "S">>, <<"F", "A", "I", "L">>}}

\* re.search(r'"reasoning"\s*:\s*"(.*)', text, re.DOTALL)
ReasoningMatches(ts) ==
  {i \in 1..(Len(ts) - 2) :
     /\ ts[i] = StrTok(KeyReasoning)
     /\ ts[i + 1] = Punct(":")
     /\ ts[i + 2].k = "str"}

\* Lines 228-240: verdict and reasoning by pattern, else the default.  The
\* reasoning is cut at the next quote, which is the end of the string
\* literal; the texts hold no backslash, so the two replacements of line 236
\* find nothing to replace.
ParseByPattern ==
  /\ call.fn = "_parse_verdict"
  /\ call.stage = "pattern"
  /\ LET vm == VerdictMatches(call.text)
         rm == ReasoningMatches(call.text)
         verdict == IF vm = {} THEN <<"F", "A", "I", "L">>
                    ELSE UpperText(call.text[(CHOOSE i \in vm : \A j \in vm : i <= j) + 2].v)
         reasoning == IF rm = {} THEN <<>>
                      ELSE Strip(call.text[(CHOOSE i \in rm : \A j \in rm : i <= j) + 2].v)
     IN IF reasoning # <<>>
          THEN Returns(verdict, reasoning)
        ELSE call' = [call EXCEPT !.stage = "returned", !.verdict = "FAIL",
                                  !.unparseable = TRUE]
  /\ OnlyCall

NextJudge == ParseWhole \/ ParseEmbedded \/ ParseByPattern

SpecJudge == InitJudge /\ [][NextJudge]_vars

(***************************************************************************)
(* JudgeRequestHandler._serve_image, followed on its own over request       *)
(* paths and a small directory tree.  A path is the sequence of its         *)
(* components from the root; the tree holds no symbolic links.              *)
(***************************************************************************)
MaxSegments == 4

tasks_dir == <<"data", "tasks">>
outputs_dir == <<"data", "outputs">>
dataset == "ds"

\* The regular files of the tree; every proper prefix is a directory.
Files ==
  { tasks_dir \o <<"t1", "in.png">>,
    outputs_dir \o <<dataset, "alpha", "t1", "001.webp">>,
    <<"data", "secret.txt">> }

\* A segment of the request path between two slashes: its text, and the
\* components that unquote(...) and the Path join make of it (abs: the
\* unquoted text starts with a slash).
Seg(name) == [text |-> name, decoded |-> <<name>>, abs |-> FALSE]

Segments ==
  { Seg("t1"), Seg("in.png"), Seg("001.webp"), Seg("M01"), Seg(".."),
    Seg("secret.txt"), Seg("gone.png"),
    [text |-> "%2e%2e", decoded |-> <<"..">>, abs |-> FALSE],
    [text |-> "..%2F..%2Fsecret.txt", decoded |-> <<"..", "..", "secret.txt">>,
     abs |-> FALSE],
    [text |-> "%2Fdata%2Fsecret.txt", decoded |-> <<"data", "secret.txt">>,
     abs |-> TRUE] }

\* self.state.model_id_map.get(model_id)
model_id_map(model_id) ==
  IF \E i \in 1..Len(ModelNames) : model_aliases(i) = model_id
    THEN ModelNames[CHOOSE i \in 1..Len(ModelNames) : model_aliases(i) = model_id]
  ELSE None

\* unquote("/".join(parts[n:])) as path components
RECURSIVE Unquoted(_)
Unquoted(segs) ==
  IF segs = <<>> THEN <<>> ELSE Head(segs).decoded \o Unquoted(Tail(segs))

\* base / ... / filename: an absolute filename replaces what precedes it
JoinPath(base, segs) ==
  IF segs # <<>> /\ Head(segs).abs THEN Unquoted(segs) ELSE base \o Unquoted(segs)

\* Path.resolve(): ".." steps to the parent, the root being its own parent
RECURSIVE resolve(_)
resolve(path) ==
  IF path = <<>> THEN <<>>
  ELSE LET parent == resolve(SubSeq(path, 1, Len(path) - 1))
           name == path[Len(path)]
       IN IF name = ".."
            THEN IF parent = <<>> THEN <<>> ELSE SubSeq(parent, 1, Len(parent) - 1)
          ELSE Append(parent, name)

\* file_path.relative_to(allowed_base) raises no ValueError
relative_to(path, base) ==
  /\ Len(path) >= Len(base)
  /\ SubSeq(path, 1, Len(base)) = base

\* do_GET: a path starting with /input/ or /candidate/ goes to _serve_image
InitImage ==
  /\ proc = "up"
  /\ items = _build_items
  /\ task_model_index_map = BuildTaskModelIndex(_build_items)
  /\ task_type_index_map = BuildTypeIndex(_build_items)
  /\ results = FreshDoc
  /\ disk = (results_path :> NoFile) @@ (results_path \o ".tmp" :> NoFile)
  /\ lock = 0
  /\ pc = [t \in Threads |-> "idle"]
  /\ req = [t \in Threads |-> NoReq]
  /\ resp = [t \in Threads |-> NoResp]
  /\ nreq = 0
  /\ ncrash = 0
  /\ saved = {}
  /\ completed = {}
  /\ lastWrite = EmptyDict
  /\ \E kind \in {"input", "candidate"} :
     \E n \in 1..MaxSegments :
     \E segs \in [1..n -> Segments] :
       call = [fn |-> "_serve_image", kind |-> kind, parts |-> <<Seg(kind)>> \o segs,
               stage |-> "route", file_path |-> <<>>, allowed_base |-> <<>>,
               resolved |-> FALSE, status |-> 0, body |-> <<>>]

send_error(status) == call' = [call EXCEPT !.stage = "sent", !.status = status]

\* Lines 597-625: the file path and the base of the route
ImageRoute ==
  /\ call.fn = "_serve_image"
  /\ call.stage = "route"
  /\ LET parts == call.parts IN
       IF call.kind = "candidate"
         THEN IF Len(parts) < 4 THEN send_error(404)
              ELSE LET model_name == model_id_map(parts[2].text) IN
                   IF model_name = None THEN send_error(404)
                   ELSE call' = [call EXCEPT
                          !.stage = "resolve",
                          !.file_path =
                             JoinPath(outputs_dir \o <<dataset, model_name, parts[3].text>>,
                                      SubSeq(parts, 4, Len(parts))),
                          !.allowed_base = outputs_dir]
       ELSE IF Len(parts) < 3 THEN send_error(404)
            ELSE call' = [call EXCEPT
                   !.stage = "resolve",
                   !.file_path = JoinPath(tasks_dir \o <<parts[2].text>>,
                                          SubSeq(parts, 3, Len(parts))),
                   !.allowed_base = tasks_dir]
  /\ OnlyCall

\* Lines 627-630: resolve, then 404 unless the path is a regular file
ImageResolve ==
  /\ call.fn = "_serve_image"
  /\ call.stage = "resolve"
  /\ LET file_path == resolve(call.file_path) IN
       IF file_path \notin Files
         THEN call' = [call EXCEPT !.stage = "sent", !.status = 404,
                                   !.file_path = file_path, !.resolved = TRUE]
       ELSE call' = [call EXCEPT !.stage = "contain",
                                 !.file_path = file_path, !.resolved = TRUE]
  /\ OnlyCall

\* Lines 631-645: 403 outside the base, else the bytes of the file (a file's
\* bytes are stood for by its path)
ImageContain ==
  /\ call.fn = "_serve_image"
  /\ call.stage = "contain"
  /\ IF ~relative_to(call.file_path, call.allowed_base)
       THEN send_error(403)
     ELSE call' = [call EXCEPT !.stage = "sent", !.status = 200,
                               !.body = call.file_path]
  /\ OnlyCall

NextImage == ImageRoute \/ ImageResolve \/ ImageContain

SpecImage == InitImage /\ [][NextImage]_vars

(***************************************************************************)
(* JudgeState._resolve_input_filenames, followed on its own over declared   *)
(* name lists and listings of the task's input directory.                   *)
(***************************************************************************)
MaxDeclared == 2

\* The file names of the runs, in lexicographic order, and their suffixes.
FileOrder == <<"a.png", "a.webp", "b.webp", "c.jpg", "d.jpeg", "notes.txt">>

Suffix ==
  ("a.png" :> ".png") @@ ("a.webp" :> ".webp") @@ ("b.webp" :> ".webp")
    @@ ("c.jpg" :> ".jpg") @@ ("d.jpeg" :> ".jpeg") @@ ("notes.txt" :> ".txt")

FileNames == {FileOrder[i] : i \in 1..Len(FileOrder)}

DeclaredLists ==
  UNION {[1..n -> {"a.png", "b.webp", "notes.txt"}] : n \in 0..MaxDeclared}

\* patterns = ("*.webp", "*.png", "*.jpg", "*.jpeg")
patterns == <<".webp", ".png", ".jpg", ".jpeg">>

\* sorted(task_dir.glob(pattern)), as names
SortedGlob(listing, pattern) ==
  SelectSeq(FileOrder, LAMBDA name : name \in listing /\ Suffix[name] = pattern)

\* _build_items: self._resolve_input_filenames(task_id, task.get("input_filenames"))
InitResolve ==
  /\ NoServer
  /\ \E declared \in DeclaredLists :
     \E exists \in BOOLEAN :
     \E listing \in SUBSET FileNames :
       /\ ~exists => listing = {}
       /\ call = [fn |-> "_resolve_input_filenames", declared |-> declared,
                  exists |-> exists, listing |-> listing, stage |-> "declared",
                  p |-> 1, filenames |-> <<>>, seen |-> {}]

\* Lines 160-164: filenames = list(declared or []); seen = set(filenames)
ResolveDeclared ==
  /\ call.fn = "_resolve_input_filenames"
  /\ call.stage = "declared"
  /\ call' = [call EXCEPT
       !.filenames = call.declared,
       !.seen = {call.declared[i] : i \in 1..Len(call.declared)},
       !.stage = IF call.exists THEN "glob" ELSE "return"]
  /\ OnlyCall

\* Lines 166-171: one pattern of the loop; the names of one glob are
\* distinct, so those not seen before the pattern are the ones appended
ResolveGlob ==
  /\ call.fn = "_resolve_input_filenames"
  /\ call.stage = "glob"
  /\ LET found == SelectSeq(SortedGlob(call.listing, patterns[call.p]),
                            LAMBDA name : name \notin call.seen)
     IN call' = [call EXCEPT
          !.filenames = call.filenames \o found,
          !.seen = call.seen \cup {found[i] : i \in 1..Len(found)},
          !.p = call.p + 1,
          !.stage = IF call.p = Len(patterns) THEN "return" ELSE "glob"]
  /\ OnlyCall

\* Line 173: return tuple(filenames)
ResolveReturn ==
  /\ call.fn = "_resolve_input_filenames"
  /\ call.stage = "return"
  /\ call' = [call EXCEPT !.stage = "returned"]
  /\ OnlyCall

NextResolve == ResolveDeclared \/ ResolveGlob \/ ResolveReturn

SpecResolve == InitResolve /\ [][NextResolve]_vars

(***************************************************************************)
(* A judging session: one rater works through a scope page by page (POST    *)
(* /judge for the displayed item, then GET of the redirect's location),     *)
(* while other clients send requests of their own.  Every request is        *)
(* handled from its first line to its response before the next one starts.  *)
(***************************************************************************)
MaxStrays == 1

SessionModels == <<"alpha">>
SessionTasks ==
  << [task_id |-> "t1", task_type |-> <<"style">>],
     [task_id |-> "t2", task_type |-> <<>>] >>

\* The sets of judged positions the earlier sessions may have left.
SessionJudged ==
  LET n == Len(BuildItemsFor(SessionModels, SessionTasks)) IN
  { {}, 0..(n - 1), (0..(n - 1)) \ {7}, {p \in 0..(n - 1) : p % 2 = 0}, 5..14 }

\* The task_type fields with which the rater opens the first page.
SessionTypes == { <<>>, <<" ", "s", "t", "y", "l", "e">> }

\* str(idx), as the page's hidden field and the redirect's location carry it
IdxText(n) ==
  IF n < 10 THEN <<Digits[n + 1]>>
  ELSE <<Digits[(n \div 10) + 1], Digits[(n % 10) + 1]>>

\* The verdict the rater gives an item, as typed into the form.
Opinion(item_idx) ==
  IF item_idx % 2 = 0 THEN <<"P", "A", "S", "S">> ELSE <<" ", "f", "a", "i", "l">>

\* do_POST from line 281 to its response, set_judgement and _save_results
\* included: the document, the results directory and the response it leaves.
do_POST(raw_idx, raw_type, raw_verdict) ==
  LET task_type == ParseTaskType(raw_type)
      verdict == ParseVerdict(raw_verdict)
      filtered_indices == _filtered_indices(task_type)
      total == Len(filtered_indices)
      idx == Clamp(ParseIdx(raw_idx), total)
      doc == StoreRecord(results, ItemAt(filtered_indices, idx), verdict)
  IN IF ~IsValidVerdict(verdict)
       THEN [doc |-> results, disk |-> disk, resp |-> [status |-> 400]]
     ELSE IF total = 0
       THEN [doc |-> results, disk |-> disk, resp |-> Redirect(0, task_type)]
     ELSE [doc |-> doc,
           disk |-> os_replace([disk EXCEPT ![TmpPath(results_path)] =
                                  FileOf(Serialize(doc))],
                               TmpPath(results_path), results_path),
           resp |-> Redirect(_next_unjudged_filtered_index(filtered_indices, idx, doc),
                             task_type)]

\* The server is up on the results of earlier sessions and the rater has
\* opened a page of a scope.
InitSession ==
  /\ proc = "up"
  /\ items = BuildItemsFor(SessionModels, SessionTasks)
  /\ task_model_index_map = BuildTaskModelIndex(items)
  /\ task_type_index_map = BuildTypeIndex(items)
  /\ lock = 0
  /\ pc = [t \in Threads |-> "idle"]
  /\ req = [t \in Threads |-> NoReq]
  /\ resp = [t \in Threads |-> NoResp]
  /\ nreq = 0
  /\ ncrash = 0
  /\ saved = {}
  /\ completed = {}
  /\ lastWrite = EmptyDict
  /\ \E S \in SessionJudged :
       /\ results = DocJudging(items, S)
       /\ disk = (results_path :> FileOf(Serialize(results)))
                   @@ (results_path \o ".tmp" :> NoFile)
       /\ \E raw_type \in SessionTypes :
          \E idx \in 0..(Len(_filtered_indices(ParseTaskType(raw_type))) - 1) :
            call = [fn |-> "session", type |-> raw_type, idx |-> idx,
                    stage |-> "page", resp |-> NoResp, strays |-> 0,
                    judged0 |-> S]

SessionUnchanged ==
  UNCHANGED << proc, items, task_model_index_map, task_type_index_map, lock, pc,
               req, resp, nreq, ncrash, saved, completed, lastWrite >>

\* The rater presses a verdict button: the form posts the page's idx and
\* task_type fields (lines 551-553) and the verdict.
RaterSubmit ==
  /\ call.fn = "session"
  /\ call.stage = "page"
  /\ \E out \in {do_POST(IdxText(call.idx), call.type,
                          Opinion(_filtered_indices(ParseTaskType(call.type))[call.idx + 1]))} :
       /\ results' = out.doc
       /\ disk' = out.disk
       /\ call' = [call EXCEPT !.stage = "redirect", !.resp = out.resp]
  /\ SessionUnchanged

\* The browser follows the 303: GET /?idx=...&task_type=... (_build_index_url),
\* and _render_main (lines 343-368) clamps idx and shows the item there.
RaterFollow ==
  /\ call.fn = "session"
  /\ call.stage = "redirect"
  /\ call.resp.status = 303
  /\ \E raw_type \in TypeInputs :
       /\ ParseTaskType(raw_type) = call.resp.task_type
       /\ LET total == Len(_filtered_indices(ParseTaskType(raw_type))) IN
            call' = [call EXCEPT
              !.stage = IF total = 0 THEN "empty" ELSE "page",
              !.type = raw_type,
              !.idx = IF total = 0 THEN 0
                      ELSE Clamp(ParseIdx(IdxText(call.resp.idx)), total)]
  /\ UNCHANGED << results, disk >>
  /\ SessionUnchanged

\* Another client posts a form of its own.
StrayPostWith(raw_idx, raw_type, raw_verdict) ==
  /\ call.fn = "session"
  /\ call.strays < MaxStrays
  /\ \E out \in {do_POST(raw_idx, raw_type, raw_verdict)} :
       /\ results' = out.doc
       /\ disk' = out.disk
  /\ call' = [call EXCEPT !.strays = @ + 1]
  /\ SessionUnchanged

\* The forms the other clients post: in and out of range positions, every
\* scope, a valid and an invalid verdict.
StrayIdx == { <<"1">>, <<"9", "9">>, <<"x">> }
StrayVerdicts == { <<" ", "f", "a", "i", "l">>, <<"m", "a", "y", "b", "e">> }

StrayPost ==
  \E raw_idx \in StrayIdx, raw_type \in TypeInputs, raw_verdict \in StrayVerdicts :
    StrayPostWith(raw_idx, raw_type, raw_verdict)

\* Another client gets a page: _render_main stores nothing in the document.
StrayGet ==
  /\ call.fn = "session"
  /\ call.strays < MaxStrays
  /\ call' = [call EXCEPT !.strays = @ + 1]
  /\ UNCHANGED << results, disk >>
  /\ SessionUnchanged

NextSession == RaterSubmit \/ RaterFollow \/ StrayPost \/ StrayGet

\* The rater goes on: a page is followed by a submission, a redirect by the
\* page it names.  RaterSubmit is enabled exactly at a page and leaves it, and
\* RaterFollow is enabled exactly at a redirect and leaves it, so weak
\* fairness of the two actions is the condition that the session is always
\* eventually off either stage; it is stated in that form.
SpecSession ==
  /\ InitSession
  /\ [][NextSession]_vars
  /\ []<>(call.stage # "page")
  /\ []<>(call.stage # "redirect")

(***************************************************************************)
(* Definitions used by the properties.                                      *)
(***************************************************************************)
\* What a fresh process start would read from the results file.
Reloaded == _load_or_init_results(file)

\* Threads between the store of their record and the end of set_judgement.
InSave == {"save_open", "save_write", "save_replace", "unlock"}
InFlight == {"lock", "store"} \cup InSave \cup {"scan"}

AllStores ==
  completed \cup
  {[item_idx |-> req[t].item_idx, verdict |-> req[t].verdict] :
     t \in {u \in Threads : pc[u] \in InSave}}

\* No other submission of this run targeted the key of c with another verdict.
Uncontended(c) == \A o \in AllStores : o.item_idx = c.item_idx => o.verdict = c.verdict

\* A verdict field that is PASS or FAIL after trimming and upper-casing.
ValidVerdictText(raw) ==
  Upper(Strip(raw)) \in { <<"P", "A", "S", "S">>, <<"F", "A", "I", "L">> }

\* The position an external idx selects in a sequence of n > 0 items.
ClampedPos(raw_idx, n) ==
  LET i == ParseIdx(raw_idx) IN
  IF i < 0 THEN 0 ELSE IF i > n - 1 THEN n - 1 ELSE i

\* The step is thread t taking up a POST /judge request (every PostWith step
\* is one; no other step is).
PostArrives(t) ==
  /\ Accepting(t)
  /\ nreq' = nreq + 1
  /\ resp'[t].status # 200

JudgementTokens(ts) == SelectSeq(ts, LAMBDA e : e.tok = "judgement")

NoDuplicateKeys(ts) ==
  LET js == JudgementTokens(ts) IN
  \A i, j \in 1..Len(js) :
    (js[i].task = js[j].task /\ js[i].model = js[j].model /\ js[i].file = js[j].file)
      => i = j

(***************************************************************************)
(* C1. Concurrent verdict submissions for different keys never lose data:   *)
(* every submission whose set_judgement has returned, and whose key no      *)
(* other submission targeted with another verdict, is present with its      *)
(* verdict both in the in-memory document and in the results file.          *)
(***************************************************************************)
C1_NoLostSubmission ==
  proc = "up" =>
    \A c \in completed :
      Uncontended(c) =>
        /\ get_judgement(results, items[c.item_idx + 1]) = c.verdict
        /\ file.exists
        /\ ~Reloaded.raised
        /\ get_judgement(Reloaded.doc, items[c.item_idx + 1]) = c.verdict

\* Two requests in flight at once, both past set_judgement, on different keys.
C1_Witness ==
  /\ \A t \in Threads : pc[t] = "scan"
  /\ \E t, u \in Threads : req[t].item_idx # req[u].item_idx

(***************************************************************************)
(* C2. At every point of the persist step, and after a crash at any such    *)
(* point, the results file is absent or is the complete serialization of    *)
(* the in-memory document as it stood when some save was started; it is     *)
(* never a partial write.  Checked from an empty results directory.         *)
(***************************************************************************)
C2_FileAbsentOrSavedDocument ==
  file.exists => \E d \in saved : file.data = Serialize(d)

\* Crashed while the temporary file of a later save was half written.
C2_Witness ==
  /\ proc = "down"
  /\ ncrash > 0
  /\ tmp.exists
  /\ _load_json(tmp.data).kind = "error"
  /\ file.exists

(***************************************************************************)
(* C3. The step that records a verdict for item X makes get_judgement(X)    *)
(* return that verdict and leaves get_judgement of every other item as it   *)
(* was.                                                                     *)
(***************************************************************************)
C3_NoCrossTalk ==
  [][\A t \in Threads :
       Store(t) =>
         \A j \in 1..Len(items) :
           get_judgement(results', items[j]) =
             IF j = req[t].item_idx + 1 THEN req[t].verdict
             ELSE get_judgement(results, items[j])]_vars

\* A verdict has just been stored into a document that held other verdicts.
C3_Witness ==
  \E t \in Threads :
    /\ pc[t] = "save_open"
    /\ \E j \in 1..Len(items) :
         /\ j # req[t].item_idx + 1
         /\ items[j].task_id = items[req[t].item_idx + 1].task_id
         /\ get_judgement(results, items[j]) # None

(***************************************************************************)
(* C4. Last write wins and nothing accumulates: the document holds, for     *)
(* every key written in this run, the verdict of the most recent store,     *)
(* and a results file never lists a key twice.                              *)
(***************************************************************************)
C4_LastWriteWins ==
  /\ proc = "up" =>
       \A i \in DOMAIN lastWrite : get_judgement(results, items[i + 1]) = lastWrite[i]
  /\ (proc = "up" /\ lock = 0 /\ lastWrite # EmptyDict) =>
       \A i \in DOMAIN lastWrite :
         Cardinality({k \in 1..Len(file.data) :
                        /\ file.data[k].tok = "judgement"
                        /\ file.data[k].task = items[i + 1].task_id
                        /\ file.data[k].model = items[i + 1].model_id
                        /\ file.data[k].file = candidate_filename(items[i + 1])
                        /\ file.data[k].verdict = lastWrite[i]}) = 1
  /\ NoDuplicateKeys(file.data)

\* A completed submission has been overwritten by a later one with the other verdict.
C4_Witness ==
  /\ proc = "up"
  /\ lock = 0
  /\ \E c \in completed : lastWrite[c.item_idx] # c.verdict

(***************************************************************************)
(* C5. Persist/reload round trip: whenever a verdict has been recorded in   *)
(* this run and no write is in progress, loading the results file yields    *)
(* the in-memory document, with every verdict recorded in the run.          *)
(***************************************************************************)
C5_ReloadEqualsMemory ==
  (proc = "up" /\ lock = 0 /\ completed # {}) =>
    /\ Reloaded = [raised |-> FALSE, doc |-> results]
    /\ \A i \in DOMAIN lastWrite :
         get_judgement(Reloaded.doc, items[i + 1]) = lastWrite[i]

\* Two verdicts recorded in one run, none being written.
C5_Witness ==
  /\ proc = "up"
  /\ lock = 0
  /\ Cardinality(DOMAIN lastWrite) >= 2
  /\ \A i \in DOMAIN lastWrite :
       [item_idx |-> i, verdict |-> lastWrite[i]] \in completed

(***************************************************************************)
(* C6. Starting on a results file that is a JSON object of another schema   *)
(* version gives a freshly initialized document with no judgement, raises   *)
(* nothing and leaves the file alone; the file changes only when a verdict  *)
(* write replaces it.                                                       *)
(***************************************************************************)
VersionMismatch(f) ==
  /\ f.exists
  /\ _load_json(f.data).kind = "dict"
  /\ _load_json(f.data).doc.schema_version # SCHEMA_VERSION

C6_VersionMismatchResets ==
  [][/\ (Startup /\ VersionMismatch(file)) =>
          /\ proc' = "up"
          /\ results' = [schema_version |-> SCHEMA_VERSION, judgements |-> EmptyDict]
          /\ file' = file
     /\ file' # file =>
          \E t \in Threads : pc[t] = "save_replace" /\ pc'[t] = "unlock"]_vars

\* Running on a mismatched file that requests have not yet overwritten.
C6_Witness ==
  /\ proc = "up"
  /\ VersionMismatch(file)
  /\ _load_json(file.data).doc.judgements # EmptyDict
  /\ results.judgements = EmptyDict
  /\ nreq > 0

(***************************************************************************)
(* C7. A results file that does not parse as JSON is treated like a         *)
(* missing one: startup succeeds with a freshly initialized document.       *)
(***************************************************************************)
C7_CorruptFileIsNonFatal ==
  [][(Startup /\ file.exists /\ _load_json(file.data).kind = "error") =>
       (proc' = "up" /\ results' = FreshDoc)]_vars

(***************************************************************************)
(* C8. A POST /judge whose verdict is missing or not PASS/FAIL (after       *)
(* trimming and upper-casing) is answered 400, ends there, and leaves the   *)
(* document and the files as they were.                                     *)
(***************************************************************************)
C8_InvalidVerdictRejected ==
  [][\A t \in Threads :
       PostArrives(t) =>
       \A ri \in IdxInputs, rt \in TypeInputs, rv \in VerdictInputs :
         (PostWith(t, ri, rt, rv) /\ ~ValidVerdictText(rv)) =>
           /\ resp'[t] = [status |-> 400]
           /\ pc'[t] = "done"
           /\ results' = results
           /\ disk' = disk]_vars

\* A rejected submission while the document holds judgements.
C8_Witness ==
  /\ proc = "up"
  /\ \E t \in Threads : pc[t] = "done" /\ resp[t] = [status |-> 400]
  /\ results.judgements # EmptyDict

(***************************************************************************)
(* C9. A valid POST /judge on a non-empty filtered sequence selects the     *)
(* item at the clamped idx of the sequence filtered by the submitted        *)
(* task_type, stores the verdict for that item and no other, and answers    *)
(* 303 to the position next-unjudged gives in that sequence once the        *)
(* record is stored, with the same task_type.                               *)
(***************************************************************************)
C9_RecordsThenRedirects ==
  [][\A t \in Threads :
       /\ PostArrives(t) =>
          \A ri \in IdxInputs, rt \in TypeInputs, rv \in VerdictInputs :
            LET F == _filtered_indices(Join(Strip(rt))) IN
            (PostWith(t, ri, rt, rv) /\ ValidVerdictText(rv) /\ Len(F) > 0) =>
              /\ pc'[t] = "lock"
              /\ req'[t].task_type = Join(Strip(rt))
              /\ req'[t].idx = ClampedPos(ri, Len(F))
              /\ req'[t].item_idx = F[ClampedPos(ri, Len(F)) + 1]
              /\ req'[t].verdict = Join(Upper(Strip(rv)))
       /\ (pc[t] \in InFlight /\ pc'[t] \in InFlight) =>
            /\ req'[t].task_type = req[t].task_type
            /\ req'[t].idx = req[t].idx
            /\ req'[t].item_idx = req[t].item_idx
            /\ req'[t].verdict = req[t].verdict
       /\ (pc[t] = "store" /\ pc'[t] = "save_open") =>
            \A j \in 1..Len(items) :
              IF j = req[t].item_idx + 1
                THEN get_judgement(results', items[j]) = req[t].verdict
                ELSE get_judgement(results', items[j]) = get_judgement(results, items[j])
       /\ (pc[t] = "scan" /\ pc'[t] = "done") =>
            /\ get_judgement(results', items[req[t].item_idx + 1]) # None
            /\ resp'[t] =
                 [status |-> 303,
                  idx |-> _next_unjudged_filtered_index(
                            _filtered_indices(req[t].task_type), req[t].idx, results'),
                  task_type |-> req[t].task_type]]_vars

\* A submission under the filter was recorded and redirected past position 0.
C9_Witness ==
  \E t \in Threads :
    /\ pc[t] = "done"
    /\ resp[t].status = 303
    /\ resp[t].task_type = "style"
    /\ resp[t].idx > 0
    /\ completed # {}

(***************************************************************************)
(* C10. Stepping to the next position and then to the previous one returns  *)
(* to the starting position, wrapping at both ends: on every rendered page  *)
(* (full or filtered sequence) and for JudgeState.next_index / prev_index   *)
(* on every position of the full sequence.                                  *)
(***************************************************************************)
C10_NextThenPrev ==
  /\ \A t \in Threads :
       (resp[t].status = 200 /\ resp[t].page = "item") =>
         /\ PrevPos(resp[t].next_idx, resp[t].total) = resp[t].idx
         /\ NextPos(resp[t].prev_idx, resp[t].total) = resp[t].idx
         /\ resp[t].idx = 0 => resp[t].prev_idx = resp[t].total - 1
         /\ resp[t].idx = resp[t].total - 1 => resp[t].next_idx = 0
         /\ resp[t].total = Len(_filtered_indices(resp[t].task_type))
  /\ \A tag \in {""} \cup DOMAIN task_type_index_map :
       LET n == Len(_filtered_indices(tag)) IN
       \A pos \in 0..(n - 1) :
         /\ PrevPos(NextPos(pos, n), n) = pos
         /\ pos = 0 => PrevPos(pos, n) = n - 1
         /\ pos = n - 1 => NextPos(pos, n) = 0
  /\ \A pos \in 0..(total_items - 1) :
       /\ prev_index(next_index(pos)) = pos
       /\ next_index(prev_index(pos)) = pos
       /\ pos = 0 => prev_index(pos) = total_items - 1
       /\ pos = total_items - 1 => next_index(pos) = 0

\* The last page of the filtered sequence, whose next link wraps to 0.
C10_Witness ==
  \E t \in Threads :
    /\ resp[t].status = 200
    /\ resp[t].page = "item"
    /\ resp[t].task_type = "style"
    /\ resp[t].idx = resp[t].total - 1
    /\ resp[t].next_idx = 0

(***************************************************************************)
(* C11. next-unjudged from position current over a sequence of length n > 0 *)
(* returns the first position in the cyclic order current+1, ...,           *)
(* current+n (mod n) whose item has no recorded judgement, returns current  *)
(* when every item of the sequence is judged, and examines at most n        *)
(* positions; JudgeState.next_unjudged_index does the same on the full      *)
(* sequence.                                                                *)
(***************************************************************************)
\* The offsets 1..n at which the cyclic order from cur meets an unjudged item.
UnjudgedOffsets(F, cur, doc) ==
  {k \in 1..Len(F) :
     get_judgement(doc, items[F[((cur + k) % Len(F)) + 1] + 1]) = None}

FirstUnjudged(F, cur, doc) ==
  LET ks == UnjudgedOffsets(F, cur, doc) IN
  IF ks = {} THEN cur
  ELSE (cur + (CHOOSE k \in ks : \A j \in ks : k <= j)) % Len(F)

C11_NextUnjudgedIsFirstInCyclicOrder ==
  (call.fn = "_next_unjudged_filtered_index" /\ Len(call.filtered) > 0) =>
    /\ call.examined <= Len(call.filtered)
    /\ call.returned =>
         /\ call.result = FirstUnjudged(call.filtered, call.start_idx, results)
         /\ call.examined =
              IF UnjudgedOffsets(call.filtered, call.start_idx, results) = {}
                THEN Len(call.filtered)
              ELSE CHOOSE k \in UnjudgedOffsets(call.filtered, call.start_idx, results) :
                     \A j \in UnjudgedOffsets(call.filtered, call.start_idx, results) : k <= j
    /\ (call.returned /\ call.task_type = "") =>
         next_unjudged_index(call.start_idx, results) =
           FirstUnjudged(call.filtered, call.start_idx, results)

\* The scan went once round a fully judged filtered sequence and came back.
C11_Witness ==
  /\ call.fn = "_next_unjudged_filtered_index"
  /\ call.returned
  /\ call.task_type = "style"
  /\ call.start_idx > 0
  /\ call.examined = Len(call.filtered)
  /\ call.result = call.start_idx
  /\ UnjudgedOffsets(call.filtered, call.start_idx, results) = {}
  /\ \E i \in 1..Len(items) : get_judgement(results, items[i]) = None

(***************************************************************************)
(* C12. On GET / and POST /judge the externally supplied idx is brought     *)
(* into [0, length-1] of the (possibly filtered) sequence before it selects *)
(* an item.                                                                 *)
(***************************************************************************)
\* The text is an integer literal: an optional sign and decimal digits.
IsNumeral(raw) ==
  LET s == Strip(raw)
      body == IF s # <<>> /\ s[1] \in {"-", "+"} THEN Tail(s) ELSE s
  IN /\ body # <<>>
     /\ \A i \in 1..Len(body) :
          body[i] \in {"0", "1", "2", "3", "4", "5", "6", "7", "8", "9"}

\* The step is thread t answering a GET / request.
GetArrives(t) ==
  /\ Accepting(t)
  /\ nreq' = nreq + 1
  /\ resp'[t].status = 200

\* The position the request of this step selected, and its item.
SelectsPosition(t, kind, F, pos) ==
  IF kind = "POST"
    THEN /\ pc'[t] = "lock"
         /\ req'[t].idx = pos
         /\ req'[t].item_idx = F[pos + 1]
    ELSE /\ resp'[t].page = "item"
         /\ resp'[t].idx = pos
         /\ resp'[t].item_idx = F[pos + 1]

\* Every request of this step on a non-empty sequence selects the position
\* Expected(raw idx, length) gives.
IdxTreatedAs(Expected(_, _)) ==
  \A t \in Threads :
    /\ PostArrives(t) =>
         \A ri \in IdxInputs, rt \in TypeInputs, rv \in VerdictInputs :
           LET F == _filtered_indices(Join(Strip(rt))) IN
           (ValidVerdictText(rv) /\ Len(F) > 0 /\ PostWith(t, ri, rt, rv)) =>
             /\ Expected(ri, Len(F)) \in 0..(Len(F) - 1)
             /\ SelectsPosition(t, "POST", F, Expected(ri, Len(F)))
    /\ GetArrives(t) =>
         \A ri \in IdxInputs, rt \in TypeInputs :
           LET F == _filtered_indices(Join(Strip(rt))) IN
           (Len(F) > 0 /\ GetWith(t, ri, rt)) =>
             /\ Expected(ri, Len(F)) \in 0..(Len(F) - 1)
             /\ SelectsPosition(t, "GET", F, Expected(ri, Len(F)))

\* The claim as stated: an absent, non-numeric or out-of-range idx is
\* treated as position 0.
OutOfRangeIsZero(raw, n) ==
  IF raw = <<>> \/ ~IsNumeral(raw) THEN 0
  ELSE LET v == ParseInt(raw).val IN IF v < 0 \/ v > n - 1 THEN 0 ELSE v

C12_OutOfRangeIsPositionZero == [][IdxTreatedAs(OutOfRangeIsZero)]_vars

\* As amended: an absent, non-numeric or negative idx is treated as position
\* 0, an idx above length-1 as position length-1, any other idx as itself.
NearestPosition(raw, n) ==
  IF raw = <<>> \/ ~IsNumeral(raw) THEN 0
  ELSE LET v == ParseInt(raw).val IN
       IF v < 0 THEN 0 ELSE IF v > n - 1 THEN n - 1 ELSE v

C12_IdxIsClamped == [][IdxTreatedAs(NearestPosition)]_vars

\* A submission under the filter whose idx lay beyond the end of the sequence.
C12_Witness ==
  \E t \in Threads :
    /\ pc[t] = "lock"
    /\ req[t].task_type = "style"
    /\ req[t].idx = Len(_filtered_indices("style")) - 1
    /\ req[t].idx > 1

(***************************************************************************)
(* C13. When the task_type filter matches no item, nothing errors:          *)
(* next-unjudged gives position 0, GET / renders the "No tasks available"   *)
(* page with the link that clears the filter, and a valid POST /judge is    *)
(* redirected to position 0 under the same filter with no judgement         *)
(* recorded and nothing written.                                            *)
(***************************************************************************)
\* No item of the session carries the tag.
MatchesNoItem(tag) ==
  /\ tag # ""
  /\ \A i \in 1..Len(items) :
       \A k \in 1..Len(items[i].task_types) : items[i].task_types[k] # tag

C13_EmptyFilterIsHandled ==
  [][\A t \in Threads :
       /\ PostArrives(t) =>
            \A ri \in IdxInputs, rt \in TypeInputs, rv \in VerdictInputs :
              (/\ ValidVerdictText(rv)
               /\ MatchesNoItem(Join(Strip(rt)))
               /\ PostWith(t, ri, rt, rv)) =>
                /\ resp'[t] = [status |-> 303, idx |-> 0, task_type |-> Join(Strip(rt))]
                /\ pc'[t] = "done"
                /\ proc' = "up"
                /\ results' = results
                /\ disk' = disk
                /\ lock' = lock
       /\ GetArrives(t) =>
            \A ri \in IdxInputs, rt \in TypeInputs :
              (MatchesNoItem(Join(Strip(rt))) /\ GetWith(t, ri, rt)) =>
                /\ resp'[t].status = 200
                /\ resp'[t].page = "No tasks available"
                /\ resp'[t].task_type = Join(Strip(rt))
                /\ resp'[t].clear_link = [status |-> 303, idx |-> 0, task_type |-> ""]
                /\ pc'[t] = "done"
                /\ proc' = "up"
                /\ results' = results
                /\ disk' = disk
                /\ \A start_idx \in {ParseIdx(ri), 0} :
                     _next_unjudged_filtered_index(
                       _filtered_indices(Join(Strip(rt))), start_idx, results') = 0]_vars

\* Both requests of the run met the empty filter: one GET, one valid POST.
C13_Witness ==
  /\ results.judgements # EmptyDict
  /\ \E t, u \in Threads :
       /\ resp[t] = [status |-> 303, idx |-> 0, task_type |-> "z"]
       /\ resp[u].status = 200
       /\ resp[u].page = "No tasks available"
       /\ resp[u].task_type = "z"

(***************************************************************************)
(* C14. For model names and task ids without repetition, _build_items       *)
(* produces exactly len(models) x len(tasks) x 10 items, every item's       *)
(* candidate number lies in 1..10, and each (model, task, slot)             *)
(* combination occurs exactly once.                                         *)
(***************************************************************************)
ValidCatalog(model_names, tasks) ==
  /\ \A i, j \in 1..Len(model_names) : model_names[i] = model_names[j] => i = j
  /\ \A i, j \in 1..Len(tasks) : tasks[i].task_id = tasks[j].task_id => i = j

\* How many items of its are slot c of task task_id for the model model_name.
Occurrences(its, model_name, task_id, c) ==
  Cardinality({i \in 1..Len(its) :
                 /\ its[i].model_name = model_name
                 /\ its[i].task_id = task_id
                 /\ its[i].candidate_num = c})

C14_OneItemPerCombination ==
  (call.fn = "JudgeState.__init__" /\ call.stage # "items"
     /\ ValidCatalog(call.model_names, call.tasks)) =>
    /\ Len(items) = Len(call.model_names) * Len(call.tasks) * 10
    /\ \A i \in 1..Len(items) : items[i].candidate_num \in 1..10
    /\ \A m \in 1..Len(call.model_names), t \in 1..Len(call.tasks), c \in 1..10 :
         Occurrences(items, call.model_names[m], call.tasks[t].task_id, c) = 1

\* Two models and one task give twenty items.
C14_Witness ==
  /\ call.fn = "JudgeState.__init__"
  /\ call.stage = "done"
  /\ Len(call.model_names) = 2
  /\ Len(call.tasks) = 1
  /\ ValidCatalog(call.model_names, call.tasks)
  /\ Len(items) = 20

(***************************************************************************)
(* C15. Shuffling only permutes the item sequence: whatever positions       *)
(* random.shuffle draws, every (model, task, slot) triple occurs in the     *)
(* sequence as often as in the unshuffled build, and once the shuffle is    *)
(* over the sequence is not changed again.                                  *)
(***************************************************************************)
SameTriples(its, other) ==
  /\ Len(its) = Len(other)
  /\ \A i \in 1..Len(other) :
       Occurrences(its, other[i].model_name, other[i].task_id, other[i].candidate_num)
         = Occurrences(other, other[i].model_name, other[i].task_id,
                       other[i].candidate_num)

C15_ShuffleOnlyPermutes ==
  /\ []((call.fn = "JudgeState.__init__" /\ call.stage # "items") =>
          SameTriples(items, BuildItemsFor(call.model_names, call.tasks)))
  /\ [][/\ (call.fn = "JudgeState.__init__"
             /\ call.stage \in {"index", "load", "done"}) => items' = items
        /\ (proc = "up" /\ proc' = "up") => items' = items]_vars

\* A finished construction whose shuffle exchanged two items.
C15_Witness ==
  /\ call.fn = "JudgeState.__init__"
  /\ call.stage = "done"
  /\ call.shuffle
  /\ call.nswap = MaxSwaps
  /\ items # BuildItemsFor(call.model_names, call.tasks)

(***************************************************************************)
(* C16. For every (task id, model alias) pair of a catalog without          *)
(* repetition, task_model_index_map holds exactly the positions of the      *)
(* pair's items in the main sequence, listed in candidate-slot order (slot  *)
(* 1 first, slot 10 last), for every build, shuffled ones included.         *)
(***************************************************************************)
\* The position (0-based) of slot c of the pair in the main sequence.
PositionOf(its, task_id, model_id, c) ==
  CHOOSE p \in 0..(Len(its) - 1) :
    /\ its[p + 1].task_id = task_id
    /\ its[p + 1].model_id = model_id
    /\ its[p + 1].candidate_num = c

C16_IndexByTaskModelInSlotOrder ==
  (call.fn = "JudgeState.__init__" /\ call.stage = "done"
     /\ ValidCatalog(call.model_names, call.tasks)) =>
    /\ DOMAIN task_model_index_map =
         {<<call.tasks[t].task_id, AliasOf(call.model_names, call.model_names[m])>> :
            t \in 1..Len(call.tasks), m \in 1..Len(call.model_names)}
    /\ \A key \in DOMAIN task_model_index_map :
         task_model_index_map[key] =
           [c \in 1..10 |-> PositionOf(items, key[1], key[2], c)]

(***************************************************************************)
(* C20. For every tag, task_type_index_map lists exactly the positions      *)
(* whose item carries the tag, each position once and in ascending order,   *)
(* so the length of the filtered sequence and its progress count are        *)
(* counts of distinct tagged items, also when a task's tag list repeats a   *)
(* tag; an item without tags is in no type index.                           *)
(***************************************************************************)
TagsOf(item) == {item.task_types[k] : k \in 1..Len(item.task_types)}

\* The positions (0-based) of the items that carry the tag.
Carrying(its, tag) == {p \in 0..(Len(its) - 1) : tag \in TagsOf(its[p + 1])}

C20_TypeIndexListsEachPositionOnce ==
  (call.fn = "JudgeState.__init__" /\ call.stage = "done") =>
    /\ DOMAIN task_type_index_map = UNION {TagsOf(items[i]) : i \in 1..Len(items)}
    /\ \A tag \in DOMAIN task_type_index_map :
         LET index == task_type_index_map[tag] IN
         /\ {index[j] : j \in 1..Len(index)} = Carrying(items, tag)
         /\ \A j, k \in 1..Len(index) : j < k => index[j] < index[k]
         /\ Len(_filtered_indices(tag)) = Cardinality(Carrying(items, tag))
         /\ DoneCount(_filtered_indices(tag), results) =
              Cardinality({p \in Carrying(items, tag) :
                             get_judgement(results, items[p + 1]) # None})
    /\ \A i \in 1..Len(items) :
         TagsOf(items[i]) = {} =>
           \A tag \in DOMAIN task_type_index_map :
             \A j \in 1..Len(task_type_index_map[tag]) :
               task_type_index_map[tag][j] # i - 1

(***************************************************************************)
(* C17. _parse_verdict never raises, whatever the reply text: a reply that  *)
(* is exactly an object with a valid verdict and a reasoning, or prose      *)
(* around one such object, returns that verdict and reasoning; any other    *)
(* reply, valid JSON that is not an object included, ends in a returned     *)
(* verdict, which is FAIL with "Unparseable model response: <text>" when no *)
(* strategy succeeds.                                                       *)
(***************************************************************************)
IsVerdictObject(ts) ==
  /\ Len(ts) = 9
  /\ ts = ReplyObject(ts[4], ts[8])
  /\ ts[4].k = "str"
  /\ UpperText(Strip(ts[4].v)) \in {<<"P", "A", "S", "S">>, <<"F", "A", "I", "L">>}
  /\ ts[8].k = "str"
  /\ Strip(ts[8].v) # <<>>

\* The places where the reply holds the object, with prose or nothing around it.
ObjectIn(ts) ==
  {a \in 1..Len(ts) :
     /\ a + 8 <= Len(ts)
     /\ IsVerdictObject(SubSeq(ts, a, a + 8))
     /\ \A i \in 1..Len(ts) : (i < a \/ i > a + 8) => ts[i] = WordTok}

C17_Returned ==
  (call.fn = "_parse_verdict" /\ call.stage = "returned") =>
    /\ \A a \in ObjectIn(call.text) :
         /\ call.verdict = Join(UpperText(Strip(call.text[a + 3].v)))
         /\ call.reasoning = Strip(call.text[a + 7].v)
         /\ ~call.unparseable
    /\ call.unparseable => call.verdict = "FAIL"
    /\ call.verdict \in {"PASS", "FAIL"}

C17_ParseVerdictNeverRaises ==
  /\ call.fn = "_parse_verdict" => call.stage # "raised"
  /\ C17_Returned

(***************************************************************************)
(* C18. On both image routes a request whose resolved file path is outside  *)
(* the base directory of the route is answered 403, whether or not a file   *)
(* exists at that path, and the bytes of a file outside the base directory  *)
(* are never served.                                                        *)
(***************************************************************************)
BaseOf(kind) == IF kind = "candidate" THEN outputs_dir ELSE tasks_dir

Outside(path, base) ==
  \E i \in 1..Len(base) : i > Len(path) \/ path[i] # base[i]

C18_NoBytesFromOutside ==
  (call.fn = "_serve_image" /\ call.stage = "sent" /\ call.status = 200) =>
    /\ call.body \in Files
    /\ ~Outside(call.body, BaseOf(call.kind))

C18_OutsideBaseIsForbidden ==
  /\ (call.fn = "_serve_image" /\ call.stage = "sent" /\ call.resolved
        /\ Outside(call.file_path, BaseOf(call.kind)))
       => call.status = 403
  /\ C18_NoBytesFromOutside

(***************************************************************************)
(* C19. _resolve_input_filenames returns a sequence without duplicates:     *)
(* the declared names in declared order, a repeated name kept once, then    *)
(* the image files (.webp, .png, .jpg, .jpeg) of the input directory that  *)
(* are not yet present, in lexicographic order of file name.                *)
(***************************************************************************)
RECURSIVE FirstOccurrences(_)
FirstOccurrences(names) ==
  IF names = <<>> THEN <<>>
  ELSE LET front == FirstOccurrences(SubSeq(names, 1, Len(names) - 1))
           name == names[Len(names)]
       IN IF \E i \in 1..Len(front) : front[i] = name THEN front
          ELSE Append(front, name)

ImageSuffixes == {".webp", ".png", ".jpg", ".jpeg"}

ExpectedFilenames(declared, listing) ==
  FirstOccurrences(declared)
    \o SelectSeq(FileOrder,
                 LAMBDA name : /\ name \in listing
                               /\ Suffix[name] \in ImageSuffixes
                               /\ \A i \in 1..Len(declared) : declared[i] # name)

C19_ResolvedFilenames ==
  (call.fn = "_resolve_input_filenames" /\ call.stage = "returned") =>
    /\ \A i, j \in 1..Len(call.filenames) :
         i # j => call.filenames[i] # call.filenames[j]
    /\ call.filenames = ExpectedFilenames(call.declared, call.listing)

\* The same, for declared lists without a repeated name and directories
\* whose image files have one suffix.
C19_HoldsWithoutRepeatsAndMixedSuffixes ==
  (/\ call.fn = "_resolve_input_filenames" /\ call.stage = "returned"
   /\ \A i, j \in 1..Len(call.declared) : i # j => call.declared[i] # call.declared[j]
   /\ \A m, n \in call.listing :
        (Suffix[m] \in ImageSuffixes /\ Suffix[n] \in ImageSuffixes)
          => Suffix[m] = Suffix[n])
    => call.filenames = ExpectedFilenames(call.declared, call.listing)

(***************************************************************************)
(* C21. Session progress.  In a non-empty scope (all items, or the items    *)
(* carrying a task type) the number of judged items never decreases,        *)
(* whatever requests arrive; a valid submission for an unjudged item raises *)
(* it by exactly one; a rater who keeps submitting a valid verdict for the  *)
(* displayed item and following the redirect lands on an unjudged item      *)
(* whenever one remains in the scope, so every item of the scope is         *)
(* eventually judged, and from then on the redirect stays on the current    *)
(* position.                                                                *)
(***************************************************************************)
SessionScopes == {"", "style", "z"}

\* The positions (0-based) of the items in the scope of a task type.
ScopeOf(task_type) ==
  IF task_type = "" THEN 0..(Len(items) - 1) ELSE Carrying(items, task_type)

\* The item position shown at position idx of a scope.
PositionAt(S, idx) == CHOOSE p \in S : Cardinality({q \in S : q < p}) = idx

JudgedIn(doc, S) == {p \in S : get_judgement(doc, items[p + 1]) # None}
JudgedCount(doc, S) == Cardinality(JudgedIn(doc, S))

RaterScope == ScopeOf(Join(Strip(call.type)))

C21_NeverDecreases ==
  \A task_type \in SessionScopes :
    JudgedCount(results', ScopeOf(task_type)) >= JudgedCount(results, ScopeOf(task_type))

\* The step is a valid submission for the item at position p, unjudged so
\* far, and p lies in S: the judged items of S are one more.
RaisesByOne(p, S) ==
  (p \in S /\ p \notin JudgedIn(results, S)) =>
    /\ JudgedCount(results', S) = JudgedCount(results, S) + 1
    /\ JudgedIn(results', S) = JudgedIn(results, S) \cup {p}

C21_StraySubmissionRaisesByOne ==
  (call.strays < MaxStrays /\ call'.strays = call.strays + 1) =>
    \A raw_idx \in StrayIdx, raw_type \in TypeInputs, raw_verdict \in StrayVerdicts :
      LET mine == ScopeOf(Join(Strip(raw_type)))
          p == PositionAt(mine, NearestPosition(raw_idx, Cardinality(mine)))
      IN (/\ ValidVerdictText(raw_verdict)
          /\ mine # {}
          /\ get_judgement(results, items[p + 1]) = None
          /\ StrayPostWith(raw_idx, raw_type, raw_verdict))
           => \A task_type \in SessionScopes : RaisesByOne(p, ScopeOf(task_type))

C21_RaterSubmissionRaisesByOne ==
  (call.stage = "page" /\ RaterSubmit) =>
    \A task_type \in SessionScopes :
      RaisesByOne(PositionAt(RaterScope, call.idx), ScopeOf(task_type))

\* The redirect of the rater's submission names an unjudged item of the
\* scope while there is one, and the submitted position when there is none.
C21_RedirectLands ==
  (call.stage = "page" /\ RaterSubmit) =>
    /\ call'.resp.status = 303
    /\ call'.resp.task_type = Join(Strip(call.type))
    /\ IF JudgedIn(results', RaterScope) # RaterScope
         THEN /\ call'.resp.idx \in 0..(Cardinality(RaterScope) - 1)
              /\ PositionAt(RaterScope, call'.resp.idx) \notin JudgedIn(results', RaterScope)
       ELSE call'.resp.idx = call.idx

\* Following the redirect shows the position it names, in the same scope.
C21_FollowShows ==
  (call.stage = "redirect" /\ RaterFollow) =>
    /\ call'.stage = "page"
    /\ call'.idx = call.resp.idx
    /\ Join(Strip(call'.type)) = Join(Strip(call.type))

C21_AllJudged == call.fn = "session" /\ JudgedIn(results, RaterScope) = RaterScope

C21_SessionProgress ==
  /\ [](call.fn = "session" => RaterScope # {})
  /\ [][C21_NeverDecreases]_vars
  /\ [][C21_StraySubmissionRaisesByOne]_vars
  /\ [][C21_RaterSubmissionRaisesByOne]_vars
  /\ [][C21_RedirectLands]_vars
  /\ [][C21_FollowShows]_vars
  /\ <>[]C21_AllJudged

\* The rater, starting with nothing judged and alone, has judged all items
\* and the redirect names the position just submitted.
C21_Witness ==
  /\ call.fn = "session"
  /\ call.stage = "redirect"
  /\ call.type = <<>>
  /\ call.judged0 = {}
  /\ call.strays = 0
  /\ JudgedIn(results, RaterScope) = RaterScope
  /\ call.resp.idx = call.idx

====
